---------------------------- MODULE Spec2Model ----------------------------
(***************************************************************************)
(* Model of the embedded test bench's voltage scaling module (VSM):        *)
(*   - TCA9548A  I2C multiplexer            (ETB/core/TCA9548A.py)         *)
(*   - MIC24045  DC/DC converter            (ETB/core/MIC24045.py)         *)
(*   - INA219    wattmeter                  (ETB/core/INA219.py)           *)
(*   - VSM       facade over 4 rails        (ETB/core/VSM.py)              *)
(*                                                                         *)
(* Specifications:                                                         *)
(*   Spec       the facade: construction, per-rail and whole-bank calls,   *)
(*              one bus transaction (or one driver call) per step          *)
(*   SpecXfer   the voltage <-> register transfer functions of the         *)
(*              MIC24045, computed in IEEE-754 binary64 as Python does     *)
(*   SpecVolt   CHx_set_V(volt) on a built facade                          *)
(*   SpecMux    the TCA9548A driver on its own                             *)
(*   SpecMic    the MIC24045 field setters and VOUT stepping               *)
(*   SpecBuild  construction, statement by statement                       *)
(*   SpecIna    the INA219 driver on its own                               *)
(*   SpecCal    construction followed by calibrations                      *)
(***************************************************************************)
EXTENDS Integers, Sequences, FiniteSets, TLC

VARIABLES
    \* ---- hardware ----
    muxSel,     \* control byte latched in the TCA9548A: 0 = no channel, 2^(k-1) = channel k
    en,         \* en[i]: level of rail i's enable GPIO line
    \* ---- the caller's position in the facade ----
    pc,         \* "mic" | "idle" | "gpio" | "sel" | "act" | "desel" | "ret" | "dead"
    top,        \* the facade call in progress / just ended: [name, arg]
    rail,       \* rail index of the per-rail bracket in progress
    inner,      \* value the driver call inside the bracket returned
    ret,        \* value the per-rail method returned (at pc = "ret")
    passed,     \* local `passed` of the wait loops (ms)
    result,     \* value returned by the last finished facade call
    \* ---- observation (history) ----
    log,        \* bus transactions of the per-rail call (or driver constructor) in progress / just ended
    en0,        \* the enable lines as they were when the facade call started
    acted,      \* rails visited by the whole-bank loop in progress / just ended
    polls,      \* polls made by the wait call in progress / just ended
    slept,      \* total time.sleep() time of that wait call (ms)
    fault,      \* bus failures of the per-rail call: subset of {"entry", "inner", "exit"}
    clean,      \* TRUE while no bus transaction has failed since power-up
    \* ---- transfer-function harness (SpecXfer) ----
    xpc,        \* "off" | "in" | "volt" | "done"
    xr,         \* register value fed to get_voltage_from_register
    xv,         \* the voltage it returned (binary64)
    xreg,       \* get_register_from_voltage of that voltage
    \* ---- driver harnesses (SpecMux, SpecMic, SpecBuild) ----
    rev,        \* revision of the drivers in use: "ETB" | "etb" | "testbench"
    regs,       \* setting and VOUT registers of the controller the driver talks to
    dpc,        \* "off" | position of the driver harness
    ops,        \* driver calls the harness has made
    \* ---- the wattmeter objects ----
    ina         \* ina[i]: _current_lsb, _power_lsb and _cal_value of rail i's INA219 object

facadeVars == <<muxSel, en, pc, top, rail, inner, ret, passed, result,
                log, en0, acted, polls, slept, fault, clean>>
xferVars   == <<xpc, xr, xv, xreg>>
drvVars    == <<rev, regs, dpc, ops, ina>>
vars       == <<muxSel, en, pc, top, rail, inner, ret, passed, result,
                log, en0, acted, polls, slept, fault, clean, xpc, xr, xv, xreg,
                rev, regs, dpc, ops, ina>>

-----------------------------------------------------------------------------
(***************************************************************************)
(* Python values.  `is False` is an identity test: the integer 0 and the   *)
(* float 0.0 are not False.  A value is a record with a tag; `num` is the  *)
(* number of a "Num" value and 0 otherwise.                                *)
(***************************************************************************)
PyFalse  == [tag |-> "False", num |-> 0]
PyTrue   == [tag |-> "True",  num |-> 0]
PyNone   == [tag |-> "None",  num |-> 0]
PyRaise  == [tag |-> "Raise", num |-> 0]     \* an exception left the call
PyNum(n) == [tag |-> "Num",   num |-> n]

IsFalse(v) == v.tag = "False"                \* `v is False`
Truthy(v)  == v.tag = "True" \/ (v.tag = "Num" /\ v.num # 0)   \* `if v:`

-----------------------------------------------------------------------------
(***************************************************************************)
(* IEEE-754 binary64 arithmetic, as the Python floats of the transfer      *)
(* functions use it.  TLC's integers are 32 bits wide, so a significand is *)
(* a natural number held as a little-endian sequence of 15-bit limbs       *)
(* (<<>> is zero, no leading zero limb).  A float is [m, e]: the value     *)
(* m * 2^e with 2^52 <= m < 2^53, or m = <<>> for 0.0.  Every value of the *)
(* transfer functions is non-negative, normal and far from overflow, so    *)
(* sign, subnormals and infinities are not modelled.  Results are rounded  *)
(* to nearest, ties to even.                                               *)
(***************************************************************************)
Limb == 2^15
Prec == 53

RECURSIVE BN(_)
BN(n) == IF n = 0 THEN <<>> ELSE <<n % Limb>> \o BN(n \div Limb)

RECURSIVE BTrim(_)
BTrim(a) == IF a = <<>> THEN <<>>
            ELSE IF a[Len(a)] = 0 THEN BTrim(SubSeq(a, 1, Len(a) - 1))
            ELSE a

RECURSIVE BAddC(_, _, _)
BAddC(a, b, c) ==
    IF a = <<>> /\ b = <<>> THEN (IF c = 0 THEN <<>> ELSE <<c>>)
    ELSE LET x == IF a = <<>> THEN 0 ELSE Head(a)
             y == IF b = <<>> THEN 0 ELSE Head(b)
             s == x + y + c
         IN  <<s % Limb>> \o BAddC(IF a = <<>> THEN <<>> ELSE Tail(a),
                                   IF b = <<>> THEN <<>> ELSE Tail(b),
                                   s \div Limb)
BAdd(a, b) == BAddC(a, b, 0)

\* a - b for a >= b
RECURSIVE BSubC(_, _, _)
BSubC(a, b, c) ==
    IF a = <<>> THEN <<>>
    ELSE LET y == IF b = <<>> THEN 0 ELSE Head(b)
             d == Head(a) - y - c
         IN  <<(d + Limb) % Limb>> \o BSubC(Tail(a),
                                            IF b = <<>> THEN <<>> ELSE Tail(b),
                                            IF d < 0 THEN 1 ELSE 0)
BSub(a, b) == BTrim(BSubC(a, b, 0))

\* -1, 0, 1 as a < b, a = b, a > b
RECURSIVE BCmpAt(_, _, _)
BCmpAt(a, b, i) ==
    IF i = 0 THEN 0
    ELSE IF a[i] < b[i] THEN -1
    ELSE IF a[i] > b[i] THEN 1
    ELSE BCmpAt(a, b, i - 1)
BCmp(a, b) ==
    IF Len(a) < Len(b) THEN -1
    ELSE IF Len(a) > Len(b) THEN 1
    ELSE BCmpAt(a, b, Len(a))

\* a * k for 0 <= k < Limb
RECURSIVE BMulSmallC(_, _, _)
BMulSmallC(a, k, c) ==
    IF a = <<>> THEN (IF c = 0 THEN <<>> ELSE <<c>>)
    ELSE LET p == Head(a) * k + c
         IN  <<p % Limb>> \o BMulSmallC(Tail(a), k, p \div Limb)
BMulSmall(a, k) == BTrim(BMulSmallC(a, k, 0))

RECURSIVE BMul(_, _)
BMul(a, b) ==
    IF a = <<>> \/ b = <<>> THEN <<>>
    ELSE BAdd(BMulSmall(b, Head(a)),
              LET t == BMul(Tail(a), b) IN IF t = <<>> THEN <<>> ELSE <<0>> \o t)

\* floor(a / d) for 0 < d < Limb: limbs from the most significant down
RECURSIVE BDivSmallAt(_, _, _, _)
BDivSmallAt(a, d, i, r) ==
    IF i = 0 THEN <<>>
    ELSE LET x == r * Limb + a[i]
         IN  BDivSmallAt(a, d, i - 1, x % d) \o <<x \div d>>
BDivSmall(a, d) == BTrim(BDivSmallAt(a, d, Len(a), 0))

RECURSIVE Zeros(_)
Zeros(n) == IF n = 0 THEN <<>> ELSE <<0>> \o Zeros(n - 1)

\* a * 2^s and floor(a / 2^s)
BShl(a, s) == IF a = <<>> THEN <<>>
              ELSE BMulSmall(Zeros(s \div 15) \o a, 2^(s % 15))
BShr(a, s) == IF s \div 15 >= Len(a) THEN <<>>
              ELSE BDivSmall(SubSeq(a, (s \div 15) + 1, Len(a)), 2^(s % 15))

RECURSIVE BitLenInt(_)
BitLenInt(n) == IF n = 0 THEN 0 ELSE 1 + BitLenInt(n \div 2)
BBitLen(a) == IF a = <<>> THEN 0 ELSE 15 * (Len(a) - 1) + BitLenInt(a[Len(a)])

BOdd(a) == a # <<>> /\ a[1] % 2 = 1

RECURSIVE BToInt(_)
BToInt(a) == IF a = <<>> THEN 0 ELSE Head(a) + Limb * BToInt(Tail(a))

\* the largest d in lo..hi with d*b <= r (lo*b <= r is given)
RECURSIVE BDigit(_, _, _, _)
BDigit(r, b, lo, hi) ==
    IF lo = hi THEN lo
    ELSE LET mid == (lo + hi + 1) \div 2
         IN  IF BCmp(BMulSmall(b, mid), r) <= 0
             THEN BDigit(r, b, mid, hi)
             ELSE BDigit(r, b, lo, mid - 1)

\* long division of the limbs i..Len(a) of a by b > 0, most significant first
RECURSIVE BDivAt(_, _, _)
BDivAt(a, b, i) ==
    IF i > Len(a) THEN [q |-> <<>>, r |-> <<>>]
    ELSE LET h == BDivAt(a, b, i + 1)
             r == BTrim(<<a[i]>> \o h.r)
             d == BDigit(r, b, 0, Limb - 1)
         IN  [q |-> BTrim(<<d>> \o h.q), r |-> BSub(r, BMulSmall(b, d))]

\* [q, r] with a = q*b + r, 0 <= r < b
BDivMod(a, b) == BDivAt(a, b, 1)

FZero == [m |-> <<>>, e |-> 0]

\* the binary64 nearest to n * 2^e (plus a positive amount below one unit of
\* n when sticky), ties to even
FRound(n, e, sticky) ==
    LET L == BBitLen(n)
    IN  IF n = <<>> THEN FZero
        ELSE IF L <= Prec THEN [m |-> BShl(n, Prec - L), e |-> e - (Prec - L)]
        ELSE LET s    == L - Prec
                 q    == BShr(n, s)
                 rem  == BSub(n, BShl(q, s))
                 c    == BCmp(rem, BShl(<<1>>, s - 1))
                 up   == c > 0 \/ (c = 0 /\ (sticky \/ BOdd(q)))
                 q2   == IF up THEN BAdd(q, <<1>>) ELSE q
             IN  IF BBitLen(q2) > Prec
                 THEN [m |-> BShr(q2, 1), e |-> e + s + 1]
                 ELSE [m |-> q2, e |-> e + s]

FMinE(a, b) == IF a.e < b.e THEN a.e ELSE b.e

\* float(n) for an int n >= 0
FInt(n) == FRound(BN(n), 0, FALSE)

\* the float a decimal literal p/q denotes (correctly rounded, as Python parses it)
FLit(p, q) ==
    LET k  == Prec + 2 + BitLenInt(q)
        dm == BDivMod(BShl(BN(p), k), BN(q))
    IN  FRound(dm.q, -k, dm.r # <<>>)

FAdd(a, b) ==
    IF a.m = <<>> THEN b
    ELSE IF b.m = <<>> THEN a
    ELSE LET e0 == FMinE(a, b)
         IN  FRound(BAdd(BShl(a.m, a.e - e0), BShl(b.m, b.e - e0)), e0, FALSE)

\* a - b for a >= b
FSub(a, b) ==
    IF b.m = <<>> THEN a
    ELSE LET e0 == FMinE(a, b)
         IN  FRound(BSub(BShl(a.m, a.e - e0), BShl(b.m, b.e - e0)), e0, FALSE)

FMul(a, b) ==
    IF a.m = <<>> \/ b.m = <<>> THEN FZero
    ELSE FRound(BMul(a.m, b.m), a.e + b.e, FALSE)

\* a / b for b > 0
FDiv(a, b) ==
    IF a.m = <<>> THEN FZero
    ELSE LET dm == BDivMod(BShl(a.m, Prec + 2), b.m)
         IN  FRound(dm.q, a.e - b.e - (Prec + 2), dm.r # <<>>)

\* -1, 0, 1 as a < b, a = b, a > b
FCmp(a, b) ==
    IF a.m = <<>> /\ b.m = <<>> THEN 0
    ELSE IF a.m = <<>> THEN -1
    ELSE IF b.m = <<>> THEN 1
    ELSE LET e0 == FMinE(a, b)
         IN  BCmp(BShl(a.m, a.e - e0), BShl(b.m, b.e - e0))
FLt(a, b) == FCmp(a, b) < 0
FLe(a, b) == FCmp(a, b) <= 0

\* int(a): truncation toward zero of a float >= 0
FTrunc(a) ==
    IF a.m = <<>> THEN 0
    ELSE IF a.e >= 0 THEN BToInt(BShl(a.m, a.e))
    ELSE BToInt(BShr(a.m, 0 - a.e))

-----------------------------------------------------------------------------
(***************************************************************************)
(* MIC24045: the voltage <-> register transfer functions.                  *)
(***************************************************************************)
\* the float literals of get_voltage_from_register / get_register_from_voltage
F0_005 == FLit(5, 1000)
F0_01  == FLit(1, 100)
F0_03  == FLit(3, 100)
F0_05  == FLit(5, 100)
F0_64  == FLit(64, 100)
F1_28  == FLit(128, 100)
F1_29  == FLit(129, 100)
F1_95  == FLit(195, 100)
F1_98  == FLit(198, 100)
F3_42  == FLit(342, 100)
F4_75  == FLit(475, 100)
F5_25  == FLit(525, 100)

PyFloat(f) == [tag |-> "Float", f |-> f]
NoFloat    == [tag |-> "False", f |-> FZero]

\* get_voltage_from_register with the 10 mV segment starting at 1.28 V
get_voltage_from_register_flat(reg) ==
    IF reg < 0 \/ reg > 255 THEN NoFloat
    ELSE IF reg < 129 THEN PyFloat(FAdd(FMul(FInt(reg), F0_005), F0_64))
    ELSE IF reg < 196 THEN PyFloat(FAdd(FMul(FInt(reg - 129), F0_01), F1_28))
    ELSE IF reg < 245 THEN PyFloat(FAdd(FMul(FInt(reg - 196), F0_03), F1_98))
    ELSE PyFloat(FAdd(FMul(FInt(reg - 245), F0_05), F4_75))

\* get_voltage_from_register with 30 mV steps in the last segment
get_voltage_from_register_step(reg) ==
    IF reg < 0 \/ reg > 255 THEN NoFloat
    ELSE IF reg < 129 THEN PyFloat(FAdd(FMul(FInt(reg), F0_005), F0_64))
    ELSE IF reg < 196 THEN PyFloat(FAdd(FMul(FInt(reg - 129), F0_01), F1_29))
    ELSE IF reg < 245 THEN PyFloat(FAdd(FMul(FInt(reg - 196), F0_03), F1_98))
    ELSE PyFloat(FAdd(FMul(FInt(reg - 245), F0_03), F4_75))

\* MIC24045.get_voltage_from_register(reg): a float, or False
get_voltage_from_register(reg) ==
    IF reg < 0 \/ reg > 255 THEN NoFloat
    ELSE IF reg < 129 THEN PyFloat(FAdd(FMul(FInt(reg), F0_005), F0_64))
    ELSE IF reg < 196 THEN PyFloat(FAdd(FMul(FInt(reg - 129), F0_01), F1_29))
    ELSE IF reg < 245 THEN PyFloat(FAdd(FMul(FInt(reg - 196), F0_03), F1_98))
    ELSE PyFloat(FAdd(FMul(FInt(reg - 245), F0_05), F4_75))

\* get_register_from_voltage giving the register above each margin zone
get_register_from_voltage_up(vout) ==
    IF FLt(vout, F0_64) THEN PyFalse
    ELSE IF FLt(vout, F1_28) THEN PyNum(FTrunc(FDiv(FSub(vout, F0_64), F0_005)))
    ELSE IF FLt(vout, F1_29) THEN PyNum(129)
    ELSE IF FLt(vout, F1_95) THEN PyNum(FTrunc(FDiv(FSub(vout, F1_29), F0_01)) + 129)
    ELSE IF FLt(vout, F1_98) THEN PyNum(196)
    ELSE IF FLt(vout, F3_42) THEN PyNum(FTrunc(FDiv(FSub(vout, F1_98), F0_03)) + 196)
    ELSE IF FLt(vout, F4_75) THEN PyNum(245)
    ELSE IF FLe(vout, F5_25) THEN PyNum(FTrunc(FDiv(FSub(vout, F4_75), F0_05)) + 245)
    ELSE PyFalse

\* MIC24045.get_register_from_voltage(vout): an int, or False
get_register_from_voltage(vout) ==
    IF FLt(vout, F0_64) THEN PyFalse
    ELSE IF FLt(vout, F1_28) THEN PyNum(FTrunc(FDiv(FSub(vout, F0_64), F0_005)))
    ELSE IF FLt(vout, F1_29) THEN PyNum(128)
    ELSE IF FLt(vout, F1_95) THEN PyNum(FTrunc(FDiv(FSub(vout, F1_29), F0_01)) + 129)
    ELSE IF FLt(vout, F1_98) THEN PyNum(195)
    ELSE IF FLt(vout, F3_42) THEN PyNum(FTrunc(FDiv(FSub(vout, F1_98), F0_03)) + 196)
    ELSE IF FLt(vout, F4_75) THEN PyNum(244)
    ELSE IF FLe(vout, F5_25) THEN PyNum(FTrunc(FDiv(FSub(vout, F4_75), F0_05)) + 245)
    ELSE PyFalse

\* VSM.dec2volt(decimal) / VSM.volt2dec(volt): the first controller's conversions
dec2volt(decimal) == get_voltage_from_register(decimal)
volt2dec(volt) == get_register_from_voltage(volt)

-----------------------------------------------------------------------------
(***************************************************************************)
(* The facade (VSM) and the bus.                                           *)
(***************************************************************************)
NumRails   == 4
SleepMs    == 10
MaxTimeout == 35

Rails      == 0 .. NumRails - 1
Timeouts   == {0, 20, MaxTimeout}                   \* timeouts tried by the wait calls (ms)
VoutValues == {0, 128, 255, 300}                    \* `value` arguments of CHx_set_decimal_V
StatusBytes == {0, 1, 8, 9}                         \* STATUS reads: EnS = 0x08, PGS = 0x01
InaRaw     == {0, 100, 65436}                       \* 16-bit words read from VBUS / CURRENT

Bit(b, k) == (b \div 2^k) % 2

\* the registers of a controller no driver harness talks to
NoDevice == [SET1 |-> 0, SET2 |-> 0, VOUT |-> 0]

\* a calibration that takes the 5 A current LSB and leaves the rest as it was
Profile_stale(imax) ==
    IF imax = 1
    THEN [current_lsb |-> 1524, power_lsb |-> 1000, cal_value |-> 8192]
    ELSE [current_lsb |-> 500, power_lsb |-> 1000, cal_value |-> 8192]

\* the fields of an INA219 object: as INA219.__init__ leaves them (imax = -1),
\* after _calibrate_16V_400mA (imax = INA219_CAL_400MA = 0) and after
\* _calibrate_16V_5A (imax = INA219_CAL_5A = 1); _current_lsb in units of
\* 0.0001 mA, _power_lsb in units of 0.000001 W
Profile(imax) ==
    CASE imax = 0 -> [current_lsb |-> 500, power_lsb |-> 1000, cal_value |-> 8192]
      [] imax = 1 -> [current_lsb |-> 1524, power_lsb |-> 3048, cal_value |-> 13434]
      [] OTHER    -> [current_lsb |-> 0, power_lsb |-> 0, cal_value |-> 0]

\* one transaction as the transport sees it, with the multiplexer state it meets;
\* val is the data byte of a multiplexer or VOUT write and 0 otherwise
Tx(dev, r, op, reg, val) ==
    [dev |-> dev, rail |-> r, op |-> op, reg |-> reg, val |-> val, sel |-> muxSel]

\* select() writing the bit of the channel above the one asked for
select_shifted(channel, ok) ==
    LET byte == IF channel > 0 THEN 2^channel ELSE 0
    IN  IF channel < 0 \/ channel > 8
        THEN [val |-> PyFalse, tx |-> <<>>, sel |-> muxSel]
        ELSE [val |-> IF ok THEN PyTrue ELSE PyFalse,
              tx  |-> <<Tx("mux", -1, "write_byte", "", byte)>>,
              sel |-> IF ok THEN byte ELSE muxSel]

\* select() switching on every channel up to the one asked for
select_upto(channel, ok) ==
    LET byte == IF channel > 0 THEN 2^channel - 1 ELSE 0
    IN  IF channel < 0 \/ channel > 8
        THEN [val |-> PyFalse, tx |-> <<>>, sel |-> muxSel]
        ELSE [val |-> IF ok THEN PyTrue ELSE PyFalse,
              tx  |-> <<Tx("mux", -1, "write_byte", "", byte)>>,
              sel |-> IF ok THEN byte ELSE muxSel]

\* TCA9548A.select(channel), the bus write succeeding or not:
\* the value returned, the transactions issued, the byte latched afterwards
select(channel, ok) ==
    LET byte == IF channel > 0 THEN 2^(channel - 1) ELSE 0
    IN  IF channel < 0 \/ channel > 8
        THEN [val |-> PyFalse, tx |-> <<>>, sel |-> muxSel]
        ELSE [val |-> IF ok THEN PyTrue ELSE PyFalse,
              tx  |-> <<Tx("mux", -1, "write_byte", "", byte)>>,
              sel |-> IF ok THEN byte ELSE muxSel]

\* MIC24045.read_register(register) of rail r: o = "ok", or the transaction that fails
ReadOutcomes == {"ok", "nack_w", "nack_r"}
read_register(r, reg, o) ==
    <<Tx("mic", r, "write_byte", reg, 0)>>
    \o (IF o = "nack_w" THEN <<>> ELSE <<Tx("mic", r, "read_byte", reg, 0)>>)

\* MIC24045.write_register(register, value) of rail r
write_register(r, reg, val) == <<Tx("mic", r, "write_byte_data", reg, val)>>

\* a MIC24045 field setter (set_current_limit .. set_soft_start_slope) with a
\* valid argument: read the register, and write it back when the read worked
RmwOutcomes == {"ok", "nack_w", "nack_r", "nack_d"}
set_field(r, reg, o) ==
    read_register(r, reg, IF o = "nack_d" THEN "ok" ELSE o)
    \o (IF o \in {"ok", "nack_d"} THEN write_register(r, reg, 0) ELSE <<>>)

\* INA219.calibrate(imax): the calibration register, then five
\* read-modify-writes of the configuration register
ina_calibrate(r) ==
    LET rd == Tx("ina", r, "read_i2c_block_data", "CONFIG", 0)
        wr == Tx("ina", r, "write_i2c_block_data", "CONFIG", 0)
    IN  <<Tx("ina", r, "write_i2c_block_data", "CALIBRATION", 0),
          rd, wr, rd, wr, rd, wr, rd, wr, rd, wr>>

\* a register read that leaves the word unsigned
read_ina_register_unsigned(w) == w

\* INA219.read_ina_register: the 16-bit word as a signed value
read_ina_register(w) == IF w >= 32768 THEN w - 65536 ELSE w

\* the per-rail method a facade call goes through
Method(name) ==
    CASE name \in {"enable", "disable", "ALL_enable", "ALL_disable"} -> "set_enable"
      [] name \in {"calibrate_A", "ALL_calibrate_A"}                 -> "calibrate_A"
      [] name \in {"set_decimal_V", "ALL_set_decimal_V", "set_V"}    -> "set_vout"
      [] name \in {"is_power_good", "wait_power_good",
                   "ALL_is_power_good", "ALL_wait_power_good"}       -> "is_power_good"
      [] name \in {"get_V", "ALL_get_V"}                             -> "get_V"
      [] name \in {"get_mA", "ALL_get_mA"}                           -> "get_mA"
      [] OTHER                                                       -> "init"

\* methods that test what select() returned (`if self._mux.select(..) is False`)
Checked(m) == m \in {"calibrate_A", "set_vout", "is_power_good", "get_V", "get_mA"}

SingleCalls == {"enable", "disable", "calibrate_A", "set_decimal_V",
                "is_power_good", "get_V", "get_mA", "wait_power_good"}
LoopCalls   == {"ALL_enable", "ALL_disable", "ALL_calibrate_A",
                "ALL_set_decimal_V", "ALL_is_power_good"}
GetCalls    == {"ALL_get_V", "ALL_get_mA"}
BankCalls   == LoopCalls \cup GetCalls \cup {"ALL_wait_power_good"}

Args(name) ==
    CASE name \in {"wait_power_good", "ALL_wait_power_good"} -> Timeouts
      [] name \in {"set_decimal_V", "ALL_set_decimal_V"}     -> VoutValues
      [] name \in {"calibrate_A", "ALL_calibrate_A"}         -> {0}
      [] name \in {"limit_A", "ALL_limit_A"}                 -> {2, 3, 4, 5}
      [] OTHER                                               -> {0}

\* entering the per-rail method of call `name` for rail r
StartBracket(name, r, before) ==
    /\ rail'  = r
    /\ acted' = Append(before, r)
    /\ log'   = <<>>
    /\ fault' = {}
    /\ inner' = PyNone
    /\ ret'   = PyNone
    /\ pc'    = IF Method(name) = "set_enable" THEN "gpio" ELSE "sel"

Init ==
    /\ muxSel = 0
    /\ en \in [Rails -> BOOLEAN]
    /\ en0 = en
    /\ pc = "mic"
    /\ top = [name |-> "__init__", arg |-> 0]
    /\ rail = 0
    /\ inner = PyNone
    /\ ret = PyNone
    /\ passed = 0
    /\ result = PyNone
    /\ log = <<>>
    /\ acted = <<>>
    /\ polls = 0
    /\ slept = 0
    /\ fault = {}
    /\ clean = TRUE
    /\ xpc = "off"
    /\ xr = 0
    /\ xv = NoFloat
    /\ xreg = PyFalse
    /\ rev = "ETB"
    /\ regs = NoDevice
    /\ dpc = "off"
    /\ ops = 0
    /\ ina = [r \in Rails |-> Profile(-1)]

\* VSM.__init__: self._mic[rail] = MIC24045(gpio=en<rail+1>).  The constructor
\* drives the enable line low, clears the fault flags and programs the five
\* fields; what its register accesses return is not looked at.  At most one of
\* the five field setters (the k-th, in way o) meets a failing transaction.
MIC24045_init ==
    /\ pc = "mic"
    /\ \E cmdOk \in BOOLEAN, k \in 0 .. 5, o \in RmwOutcomes \ {"ok"} :
          LET out(j) == IF j = k THEN o ELSE "ok"
          IN  /\ log' = write_register(rail, "CMD", 1)
                        \o set_field(rail, "SET1", out(1)) \o set_field(rail, "SET1", out(2))
                        \o set_field(rail, "SET2", out(3)) \o set_field(rail, "SET2", out(4))
                        \o set_field(rail, "SET2", out(5))
              /\ clean' = (clean /\ cmdOk /\ k = 0)
    /\ en' = [en EXCEPT ![rail] = FALSE]
    /\ IF rail < NumRails - 1
       THEN /\ rail' = rail + 1
            /\ UNCHANGED <<pc, acted, fault, inner, ret>>
       ELSE /\ pc' = "ina"
            /\ UNCHANGED <<rail, acted, fault, inner, ret>>
    /\ UNCHANGED <<muxSel, top, passed, result, en0, polls, slept, xferVars, drvVars>>

\* VSM.__init__: self._ina[0..3] = INA219() reach no device; the calibration
\* loop `for i in range(4)` starts with wattmeter 0
INA219_init ==
    /\ pc = "ina"
    /\ StartBracket(top.name, 0, <<>>)
    /\ UNCHANGED <<muxSel, en, top, passed, result, en0, polls, slept, clean, xferVars, drvVars>>

\* CHx_<name>(arg): a per-rail facade call starts
Call ==
    /\ pc = "idle"
    /\ \E name \in SingleCalls, r \in Rails :
          \E a \in Args(name) :
             /\ top' = [name |-> name, arg |-> a]
             /\ polls' = IF name = "wait_power_good" THEN 1 ELSE 0
             /\ StartBracket(name, r, <<>>)
    /\ passed' = 0
    /\ slept' = 0
    /\ result' = PyNone
    /\ en0' = en
    /\ UNCHANGED <<muxSel, en, clean, xferVars, drvVars>>

\* ALL_<name>(arg): a whole-bank facade call starts with rail 0
CallAll ==
    /\ pc = "idle"
    /\ \E name \in BankCalls :
          \E a \in Args(name) :
             /\ top' = [name |-> name, arg |-> a]
             /\ polls' = IF name = "ALL_wait_power_good" THEN 1 ELSE 0
             /\ StartBracket(name, 0, <<>>)
    /\ passed' = 0
    /\ slept' = 0
    /\ result' = PyNone
    /\ en0' = en
    /\ UNCHANGED <<muxSel, en, clean, xferVars, drvVars>>

\* CHx_limit_A / ALL_limit_A: _limit_A names `rself` in its first statement,
\* a NameError, before anything reaches the bus
limit_A ==
    /\ pc = "idle"
    /\ \E name \in {"limit_A", "ALL_limit_A"} :
          \E a \in Args(name) : top' = [name |-> name, arg |-> a]
    /\ result' = PyRaise
    /\ acted' = IF top'.name = "limit_A" THEN <<>> ELSE <<0>>
    /\ log' = <<>>
    /\ fault' = {}
    /\ inner' = PyNone
    /\ ret' = PyRaise
    /\ passed' = 0
    /\ slept' = 0
    /\ polls' = 0
    /\ en0' = en
    /\ UNCHANGED <<muxSel, en, pc, rail, clean, xferVars, drvVars>>

\* _set_enable: self._mic[channel].enable() / .disable(), before the bracket
set_enable_gpio ==
    /\ pc = "gpio"
    /\ en' = [en EXCEPT ![rail] = (top.name \in {"enable", "ALL_enable"})]
    /\ pc' = "sel"
    /\ UNCHANGED <<muxSel, top, rail, inner, ret, passed, result, log, en0, acted,
                   polls, slept, fault, clean, xferVars, drvVars>>

\* the bracket's entry: self._mux.select(channel+1)
bracket_select ==
    /\ pc = "sel"
    /\ \E ok \in BOOLEAN :
          LET s == select(rail + 1, ok)
          IN  /\ log' = log \o s.tx
              /\ muxSel' = s.sel
              /\ fault' = IF ok THEN fault ELSE fault \cup {"entry"}
              /\ clean' = (clean /\ ok)
              /\ IF Checked(Method(top.name)) /\ IsFalse(s.val)
                 THEN pc' = "ret" /\ ret' = PyFalse
                 ELSE pc' = "act" /\ ret' = ret
    /\ UNCHANGED <<en, top, rail, inner, passed, result, en0, acted, polls, slept,
                   xferVars, drvVars>>

\* _set_enable: ret = self._mic[channel].is_enabled()
is_enabled ==
    /\ pc = "act"
    /\ Method(top.name) = "set_enable"
    /\ \E o \in ReadOutcomes, b \in StatusBytes :
          /\ log' = log \o read_register(rail, "STATUS", o)
          /\ inner' = IF o = "ok" THEN PyNum(Bit(b, 3)) ELSE PyFalse
          /\ fault' = IF o = "ok" THEN fault ELSE fault \cup {"inner"}
          /\ clean' = (clean /\ o = "ok")
    /\ pc' = "desel"
    /\ UNCHANGED <<muxSel, en, top, rail, ret, passed, result, en0, acted, polls,
                   slept, xferVars, drvVars>>

\* _is_power_good: ret = self._mic[channel].is_power_good(); if ret is False: return False
is_power_good ==
    /\ pc = "act"
    /\ Method(top.name) = "is_power_good"
    /\ \E o \in ReadOutcomes, b \in StatusBytes :
          /\ log' = log \o read_register(rail, "STATUS", o)
          /\ inner' = IF o = "ok" THEN PyNum(Bit(b, 0)) ELSE PyFalse
          /\ fault' = IF o = "ok" THEN fault ELSE fault \cup {"inner"}
          /\ clean' = (clean /\ o = "ok")
          /\ IF o = "ok" THEN pc' = "desel" /\ ret' = ret
                         ELSE pc' = "ret" /\ ret' = PyFalse
    /\ UNCHANGED <<muxSel, en, top, rail, passed, result, en0, acted, polls, slept,
                   xferVars, drvVars>>

\* _set_vout: if self._mic[channel].set_output_voltage(value) is False: return False
set_output_voltage ==
    /\ pc = "act"
    /\ Method(top.name) = "set_vout"
    /\ \E ok \in BOOLEAN :
          /\ log' = log \o write_register(rail, "VOUT", top.arg % 256)
          /\ inner' = IF ok THEN PyTrue ELSE PyFalse
          /\ fault' = IF ok THEN fault ELSE fault \cup {"inner"}
          /\ clean' = (clean /\ ok)
          /\ IF ok THEN pc' = "desel" /\ ret' = ret
                   ELSE pc' = "ret" /\ ret' = PyFalse
    /\ UNCHANGED <<muxSel, en, top, rail, passed, result, en0, acted, polls, slept,
                   xferVars, drvVars>>

\* _calibrate_A and VSM.__init__: self._ina[channel].calibrate(imax).  An imax
\* that is neither profile raises ValueError at once.  Otherwise the three
\* fields of the object are set, then the registers are written; the INA219
\* driver does not catch the transport's exception: the k+1st transaction
\* failing ends the facade call with that exception.  calibrate returns None.
calibrate ==
    /\ pc = "act"
    /\ Method(top.name) \in {"calibrate_A", "init"}
    /\ IF top.arg \notin {0, 1}
       THEN /\ inner' = PyRaise
            /\ ret' = PyRaise
            /\ pc' = "ret"
            /\ UNCHANGED <<log, fault, clean, ina>>
       ELSE /\ ina' = [ina EXCEPT ![rail] = Profile(top.arg)]
            /\ \E k \in 0 .. Len(ina_calibrate(rail)) :
                  LET all == ina_calibrate(rail)
                  IN  IF k = Len(all)
                      THEN /\ log' = log \o all
                           /\ inner' = PyNone
                           /\ pc' = "desel"
                           /\ UNCHANGED <<ret, fault, clean>>
                      ELSE /\ log' = log \o SubSeq(all, 1, k + 1)
                           /\ inner' = PyRaise
                           /\ ret' = PyRaise
                           /\ fault' = fault \cup {"inner"}
                           /\ clean' = FALSE
                           /\ pc' = "ret"
    /\ UNCHANGED <<muxSel, en, top, rail, passed, result, en0, acted, polls, slept,
                   xferVars, rev, regs, dpc, ops>>

\* _get_V: volts = self._ina[channel].get_bus_voltage_V()  (num: the register >> 1, in mV)
\* _get_mA: amps = self._ina[channel].get_current_mA()     (num: the register, in current LSBs)
\* A failed read leaves the facade call as the transport's exception.
read_ina ==
    /\ pc = "act"
    /\ Method(top.name) \in {"get_V", "get_mA"}
    /\ \E ok \in BOOLEAN, w \in InaRaw :
          /\ log' = Append(log, Tx("ina", rail, "read_i2c_block_data",
                                   IF Method(top.name) = "get_V" THEN "VBUS" ELSE "CURRENT", 0))
          /\ IF ok
             THEN /\ inner' = IF Method(top.name) = "get_V"
                              THEN PyNum(read_ina_register(w) \div 2)
                              ELSE PyNum(read_ina_register(w))
                  /\ pc' = "desel"
                  /\ UNCHANGED <<ret, fault, clean>>
             ELSE /\ inner' = PyRaise
                  /\ ret' = PyRaise
                  /\ fault' = fault \cup {"inner"}
                  /\ clean' = FALSE
                  /\ pc' = "ret"
    /\ UNCHANGED <<muxSel, en, top, rail, passed, result, en0, acted, polls, slept,
                   xferVars, drvVars>>

\* the bracket's exit: self._mux.select(0), and the method's return
bracket_deselect ==
    /\ pc = "desel"
    /\ \E ok \in BOOLEAN :
          LET s == select(0, ok)
              m == Method(top.name)
          IN  /\ log' = log \o s.tx
              /\ muxSel' = s.sel
              /\ fault' = IF ok THEN fault ELSE fault \cup {"exit"}
              /\ clean' = (clean /\ ok)
              /\ ret' = IF Checked(m) /\ IsFalse(s.val) THEN PyFalse
                        ELSE IF m \in {"set_vout", "calibrate_A"} THEN PyTrue
                        ELSE inner
    /\ pc' = "ret"
    /\ UNCHANGED <<en, top, rail, inner, passed, result, en0, acted, polls, slept,
                   xferVars, drvVars>>

\* VSM.__init__, `for i in range(4)`: the next wattmeter, or the object is built;
\* an exception of calibrate() leaves the constructor
init_loop ==
    /\ pc = "ret"
    /\ top.name = "__init__"
    /\ IF ret = PyRaise
       THEN /\ pc' = "dead"
            /\ result' = PyRaise
            /\ UNCHANGED <<rail, acted, log, fault, inner, ret>>
       ELSE IF rail < NumRails - 1
       THEN /\ StartBracket(top.name, rail + 1, acted)
            /\ UNCHANGED result
       ELSE /\ pc' = "idle"
            /\ result' = PyNone
            /\ UNCHANGED <<rail, acted, log, fault, inner, ret>>
    /\ UNCHANGED <<muxSel, en, top, passed, en0, polls, slept, clean, xferVars, drvVars>>

\* CHx_<name>: return self._<method>(channel, ..)
return_single ==
    /\ pc = "ret"
    /\ top.name \in SingleCalls \ {"wait_power_good"}
    /\ result' = ret
    /\ pc' = "idle"
    /\ UNCHANGED <<muxSel, en, top, rail, inner, ret, passed, log, en0, acted, polls,
                   slept, fault, clean, xferVars, drvVars>>

\* a whole-bank loop that goes on to the next rail after a failure
ALL_loop_continue ==
    /\ pc = "ret"
    /\ top.name \in LoopCalls
    /\ IF rail < NumRails - 1
       THEN /\ StartBracket(top.name, rail + 1, acted)
            /\ UNCHANGED result
       ELSE /\ result' = IF ret = PyRaise \/ IsFalse(ret) THEN ret ELSE PyTrue
            /\ pc' = "idle"
            /\ UNCHANGED <<rail, acted, log, fault, inner, ret>>
    /\ UNCHANGED <<muxSel, en, top, passed, en0, polls, slept, clean, xferVars, drvVars>>

\* ALL_enable .. ALL_is_power_good:
\*   for i in range(4): if self._<method>(i, ..) is False: return False
\*   return True
ALL_loop ==
    /\ pc = "ret"
    /\ top.name \in LoopCalls
    /\ IF ret = PyRaise \/ IsFalse(ret)
       THEN /\ result' = ret
            /\ pc' = "idle"
            /\ UNCHANGED <<rail, acted, log, fault, inner, ret>>
       ELSE IF rail < NumRails - 1
       THEN /\ StartBracket(top.name, rail + 1, acted)
            /\ UNCHANGED result
       ELSE /\ result' = PyTrue
            /\ pc' = "idle"
            /\ UNCHANGED <<rail, acted, log, fault, inner, ret>>
    /\ UNCHANGED <<muxSel, en, top, passed, en0, polls, slept, clean, xferVars, drvVars>>

\* ALL_get_V / ALL_get_mA: volts = (); if ret: volts.append(ret) else: return False.
\* A tuple has no append: the first truthy reading raises AttributeError.
ALL_get ==
    /\ pc = "ret"
    /\ top.name \in GetCalls
    /\ result' = IF ret = PyRaise \/ Truthy(ret) THEN PyRaise ELSE PyFalse
    /\ pc' = "idle"
    /\ UNCHANGED <<muxSel, en, top, rail, inner, ret, passed, log, en0, acted, polls,
                   slept, fault, clean, xferVars, drvVars>>

\* a wait that gives up when the next sleep would pass the timeout
wait_power_good_early ==
    /\ pc = "ret"
    /\ top.name = "wait_power_good"
    /\ IF ~IsFalse(ret)
       THEN /\ result' = PyTrue
            /\ pc' = "idle"
            /\ UNCHANGED <<rail, acted, log, fault, inner, ret, passed, slept, polls>>
       ELSE IF passed + SleepMs >= top.arg
       THEN /\ result' = PyFalse
            /\ pc' = "idle"
            /\ UNCHANGED <<rail, acted, log, fault, inner, ret, passed, slept, polls>>
       ELSE /\ slept' = slept + SleepMs
            /\ passed' = passed + 10
            /\ polls' = polls + 1
            /\ StartBracket(top.name, rail, <<>>)
            /\ UNCHANGED result
    /\ UNCHANGED <<muxSel, en, top, en0, clean, xferVars, drvVars>>

\* _wait_power_good:
\*   while self._is_power_good(channel) is False:
\*       if passed >= timeout: return False
\*       time.sleep(0.01); passed += 10
\*   return True
wait_power_good ==
    /\ pc = "ret"
    /\ top.name = "wait_power_good"
    /\ IF ~IsFalse(ret)
       THEN /\ result' = PyTrue
            /\ pc' = "idle"
            /\ UNCHANGED <<rail, acted, log, fault, inner, ret, passed, slept, polls>>
       ELSE IF passed >= top.arg
       THEN /\ result' = PyFalse
            /\ pc' = "idle"
            /\ UNCHANGED <<rail, acted, log, fault, inner, ret, passed, slept, polls>>
       ELSE /\ slept' = slept + SleepMs
            /\ passed' = passed + 10
            /\ polls' = polls + 1
            /\ StartBracket(top.name, rail, <<>>)
            /\ UNCHANGED result
    /\ UNCHANGED <<muxSel, en, top, en0, clean, xferVars, drvVars>>

\* ALL_wait_power_good: the same loop around ALL_is_power_good()
ALL_wait_power_good ==
    /\ pc = "ret"
    /\ top.name = "ALL_wait_power_good"
    /\ IF ~IsFalse(ret) /\ rail < NumRails - 1
       THEN /\ StartBracket(top.name, rail + 1, acted)
            /\ UNCHANGED <<result, passed, slept, polls>>
       ELSE IF ~IsFalse(ret)
       THEN /\ result' = PyTrue
            /\ pc' = "idle"
            /\ UNCHANGED <<rail, acted, log, fault, inner, ret, passed, slept, polls>>
       ELSE IF passed >= top.arg
       THEN /\ result' = PyFalse
            /\ pc' = "idle"
            /\ UNCHANGED <<rail, acted, log, fault, inner, ret, passed, slept, polls>>
       ELSE /\ slept' = slept + SleepMs
            /\ passed' = passed + 10
            /\ polls' = polls + 1
            /\ StartBracket(top.name, 0, <<>>)
            /\ UNCHANGED result
    /\ UNCHANGED <<muxSel, en, top, en0, clean, xferVars, drvVars>>

Next ==
    \/ MIC24045_init
    \/ INA219_init
    \/ Call
    \/ CallAll
    \/ limit_A
    \/ set_enable_gpio
    \/ bracket_select
    \/ is_enabled
    \/ is_power_good
    \/ set_output_voltage
    \/ calibrate
    \/ read_ina
    \/ bracket_deselect
    \/ init_loop
    \/ return_single
    \/ ALL_loop
    \/ ALL_get
    \/ wait_power_good
    \/ ALL_wait_power_good

Spec == Init /\ [][Next]_vars

-----------------------------------------------------------------------------
(***************************************************************************)
(* SpecXfer: a register value through get_voltage_from_register and back   *)
(* through get_register_from_voltage.  The facade stays as built.          *)
(***************************************************************************)
InitXfer ==
    /\ muxSel = 0
    /\ en = [r \in Rails |-> FALSE]
    /\ en0 = en
    /\ pc = "idle"
    /\ top = [name |-> "__init__", arg |-> 0]
    /\ rail = 0
    /\ inner = PyNone
    /\ ret = PyNone
    /\ passed = 0
    /\ result = PyNone
    /\ log = <<>>
    /\ acted = <<>>
    /\ polls = 0
    /\ slept = 0
    /\ fault = {}
    /\ clean = TRUE
    /\ xpc = "in"
    /\ xr \in 0 .. 255
    /\ xv = NoFloat
    /\ xreg = PyFalse
    /\ rev = "ETB"
    /\ regs = NoDevice
    /\ dpc = "off"
    /\ ops = 0
    /\ ina = [r \in Rails |-> Profile(-1)]

\* volt = dec2volt(xr)
ToVoltage ==
    /\ xpc = "in"
    /\ xv' = dec2volt(xr)
    /\ xpc' = "volt"
    /\ UNCHANGED <<facadeVars, xr, xreg, drvVars>>

\* reg = volt2dec(volt)
ToRegister ==
    /\ xpc = "volt"
    /\ xv.tag = "Float"
    /\ xreg' = volt2dec(xv.f)
    /\ xpc' = "done"
    /\ UNCHANGED <<facadeVars, xr, xv, drvVars>>

NextXfer == ToVoltage \/ ToRegister

SpecXfer == InitXfer /\ [][NextXfer]_vars

-----------------------------------------------------------------------------
(***************************************************************************)
(* SpecVolt: CHx_set_V(volt) on a built facade: the voltage through        *)
(* get_register_from_voltage and, when that gave a register, through the   *)
(* _set_vout bracket.                                                      *)
(***************************************************************************)
MinMilliVolt == 500
MaxMilliVolt == 5400
GridStep     == 5

\* the binary64 value d units in the last place away from f (d = -1, 0, 1)
FNudge(f, d) ==
    [m |-> IF d < 0 THEN BSub(f.m, <<1>>) ELSE IF d > 0 THEN BAdd(f.m, <<1>>) ELSE f.m,
     e |-> f.e]

\* the bounds get_register_from_voltage compares with
Thresholds == {F0_64, F1_28, F1_29, F1_95, F1_98, F3_42, F4_75, F5_25}

\* `volt` arguments: a grid of millivolt values, and each bound with its two
\* neighbouring floats
Voltages ==
    {FLit(mv, 1000) : mv \in {x \in MinMilliVolt .. MaxMilliVolt : x % GridStep = 0}}
    \cup {FNudge(t, d) : t \in Thresholds, d \in {-1, 0, 1}}

InitVolt ==
    /\ muxSel = 0
    /\ en = [r \in Rails |-> FALSE]
    /\ en0 = en
    /\ pc = "idle"
    /\ top = [name |-> "__init__", arg |-> 0]
    /\ rail = 0
    /\ inner = PyNone
    /\ ret = PyNone
    /\ passed = 0
    /\ result = PyNone
    /\ log = <<>>
    /\ acted = <<>>
    /\ polls = 0
    /\ slept = 0
    /\ fault = {}
    /\ clean = TRUE
    /\ xpc = "vin"
    /\ xr = 0
    /\ xv \in {PyFloat(f) : f \in Voltages}
    /\ xreg = PyFalse
    /\ rev = "ETB"
    /\ regs = NoDevice
    /\ dpc = "off"
    /\ ops = 0
    /\ ina = [r \in Rails |-> Profile(-1)]

\* _set_V with a register of 0 taken for a failed conversion (`if not value`)
set_V_falsy ==
    /\ pc = "idle"
    /\ xpc = "vin"
    /\ \E r \in Rails :
          LET value == get_register_from_voltage(xv.f)
          IN  /\ xreg' = value
              /\ top' = [name |-> "set_V", arg |-> value.num]
              /\ IF ~Truthy(value)
                 THEN /\ result' = PyFalse
                      /\ rail' = r
                      /\ ret' = PyFalse
                      /\ UNCHANGED <<pc, acted, log, fault, inner>>
                 ELSE /\ StartBracket("set_V", r, <<>>)
                      /\ UNCHANGED result
    /\ xpc' = "vset"
    /\ UNCHANGED <<muxSel, en, passed, en0, polls, slept, clean, xr, xv, drvVars>>

\* CHx_set_V(volt) -> _set_V(channel, volt):
\*   value = self._mic[channel].get_register_from_voltage(volt)
\*   if value is False: return False
\*   return self._set_vout(channel, value)
set_V ==
    /\ pc = "idle"
    /\ xpc = "vin"
    /\ \E r \in Rails :
          LET value == get_register_from_voltage(xv.f)
          IN  /\ xreg' = value
              /\ top' = [name |-> "set_V", arg |-> value.num]
              /\ IF IsFalse(value)
                 THEN /\ result' = PyFalse
                      /\ rail' = r
                      /\ ret' = PyFalse
                      /\ UNCHANGED <<pc, acted, log, fault, inner>>
                 ELSE /\ StartBracket("set_V", r, <<>>)
                      /\ UNCHANGED result
    /\ xpc' = "vset"
    /\ UNCHANGED <<muxSel, en, passed, en0, polls, slept, clean, xr, xv, drvVars>>

\* CHx_set_V: return self._set_V(channel, volt)
return_set_V ==
    /\ pc = "ret"
    /\ top.name = "set_V"
    /\ result' = ret
    /\ pc' = "idle"
    /\ UNCHANGED <<muxSel, en, top, rail, inner, ret, passed, log, en0, acted, polls,
                   slept, fault, clean, xferVars, drvVars>>

NextVolt ==
    \/ set_V
    \/ bracket_select
    \/ set_output_voltage
    \/ bracket_deselect
    \/ return_set_V

SpecVolt == InitVolt /\ [][NextVolt]_vars

-----------------------------------------------------------------------------
(***************************************************************************)
(* SpecMux: the TCA9548A driver on its own, in each revision               *)
(* (ETB/core/TCA9548A.py, etb/core/tca9548.py, testbench/core/tca9548.py): *)
(* select(channel) and get_channels() against a device whose control       *)
(* register may hold any byte.                                             *)
(***************************************************************************)
BelowChannels == 2
MaxChannel == 10
Revisions == {"ETB", "etb", "testbench"}

\* a Python list
PyList(s) == [tag |-> "List", num |-> 0, items |-> s]

\* TCA9548A.read(): the control byte, or False
mux_read(ok) == IF ok THEN PyNum(muxSel) ELSE PyFalse

\* TCA9548A.get_channels() on what read() returned.  Only the ETB revision
\* tests `raw is False`; all of them decode under `if raw:`.
get_channels(rv, raw) ==
    IF rv = "ETB" /\ IsFalse(raw) THEN PyFalse
    ELSE PyList(IF Truthy(raw)
                THEN SelectSeq(<<1, 2, 3, 4, 5, 6, 7, 8>>,
                               LAMBDA k : Bit(raw.num, k - 1) = 1)
                ELSE <<>>)

InitMux ==
    /\ muxSel \in 0 .. 255
    /\ en = [r \in Rails |-> FALSE]
    /\ en0 = en
    /\ pc = "idle"
    /\ top = [name |-> "__init__", arg |-> 0]
    /\ rail = 0
    /\ inner = PyNone
    /\ ret = PyNone
    /\ passed = 0
    /\ result = PyNone
    /\ log = <<>>
    /\ acted = <<>>
    /\ polls = 0
    /\ slept = 0
    /\ fault = {}
    /\ clean = TRUE
    /\ xpc = "off"
    /\ xr = 0
    /\ xv = NoFloat
    /\ xreg = PyFalse
    /\ rev \in Revisions
    /\ regs = NoDevice
    /\ dpc = "mux"
    /\ ops = 0
    /\ ina = [r \in Rails |-> Profile(-1)]

\* mux.select(channel)
mux_select ==
    /\ dpc = "mux"
    /\ \E channel \in -BelowChannels .. MaxChannel, ok \in BOOLEAN :
          LET s == select(channel, ok)
          IN  /\ top' = [name |-> "select", arg |-> channel]
              /\ log' = s.tx
              /\ muxSel' = s.sel
              /\ result' = s.val
              /\ fault' = IF s.tx # <<>> /\ ~ok THEN {"inner"} ELSE {}
    /\ UNCHANGED <<en, pc, rail, inner, ret, passed, en0, acted, polls, slept, clean,
                   xferVars, drvVars>>

\* mux.get_channels()
mux_get_channels ==
    /\ dpc = "mux"
    /\ \E ok \in BOOLEAN :
          /\ top' = [name |-> "get_channels", arg |-> 0]
          /\ log' = <<Tx("mux", -1, "read_byte", "", 0)>>
          /\ result' = get_channels(rev, mux_read(ok))
          /\ fault' = IF ok THEN {} ELSE {"inner"}
    /\ UNCHANGED <<muxSel, en, pc, rail, inner, ret, passed, en0, acted, polls, slept,
                   clean, xferVars, drvVars>>

NextMux == mux_select \/ mux_get_channels

SpecMux == InitMux /\ [][NextMux]_vars

-----------------------------------------------------------------------------
(***************************************************************************)
(* SpecMic: the MIC24045 driver on its own, in each revision               *)
(* (ETB/core/MIC24045.py, etb/core/MIC24045.py,                            *)
(* testbench/core/mic24045.py): one field setter, or a run of              *)
(* inc_output_voltage / dec_output_voltage calls, against a controller     *)
(* whose registers hold the byte xr.                                       *)
(***************************************************************************)
MaxOps == 2

\* a & b and a | b on bytes and 16-bit words
BitAnd(a, b) ==
    LET f[k \in 0 .. 16] == IF k = 16 THEN 0 ELSE Bit(a, k) * Bit(b, k) * 2^k + f[k + 1]
    IN  f[0]
BitOr(a, b) == a + b - BitAnd(a, b)

Fields == {"ILIM", "FREQ", "SUD", "MRG", "SS"}
FieldReg(f)    == IF f \in {"ILIM", "FREQ"} THEN "SET1" ELSE "SET2"
FieldKeep(f)   == CASE f = "ILIM" -> 63 [] f = "FREQ" -> 199 [] f = "SUD" -> 143
                    [] f = "MRG" -> 243 [] f = "SS" -> 252
FieldOffset(f) == CASE f = "ILIM" -> 6 [] f = "FREQ" -> 3 [] f = "SUD" -> 4
                    [] f = "MRG" -> 2 [] f = "SS" -> 0
\* ETB revision: the dictionaries MIC24045_ILIM .. MIC24045_SS, value -> code
\* (the start-up delays in units of 0.5 ms, the slopes in units of 0.01 V/ms)
FieldTable(f) ==
    CASE f = "ILIM" -> (2 :> 0 @@ 3 :> 1 @@ 4 :> 2 @@ 5 :> 3)
      [] f = "FREQ" -> (310 :> 0 @@ 400 :> 1 @@ 500 :> 2 @@ 570 :> 3 @@ 660 :> 4
                        @@ 780 :> 5 @@ 970 :> 6 @@ 1200 :> 7)
      [] f = "SUD"  -> (0 :> 0 @@ 1 :> 1 @@ 2 :> 2 @@ 4 :> 3 @@ 8 :> 4 @@ 12 :> 5
                        @@ 16 :> 6 @@ 20 :> 7)
      [] f = "MRG"  -> (0 :> 0 @@ -5 :> 1 @@ 5 :> 2)
      [] f = "SS"   -> (16 :> 0 @@ 38 :> 1 @@ 76 :> 2 @@ 150 :> 3)
\* etb / testbench revisions: the argument is the code, 0 .. FieldMax
FieldMax(f) == IF f \in {"FREQ", "SUD"} THEN 7 ELSE 3

ValidArg(rv, f, a) ==
    IF rv = "ETB" THEN a \in DOMAIN FieldTable(f) ELSE a >= 0 /\ a <= FieldMax(f)
FieldCode(rv, f, a) == IF rv = "ETB" THEN FieldTable(f)[a] ELSE a
\* arguments tried: every valid one and some that are not
FieldArgs(rv, f) ==
    IF rv = "ETB" THEN DOMAIN FieldTable(f) \cup {1, 6} ELSE -1 .. FieldMax(f) + 1

\* the test on what read_register returned: `ret is False` (ETB), `not ret` (etb, testbench)
ReadFailed(rv, rd) == IF rv = "ETB" THEN IsFalse(rd) ELSE ~Truthy(rd)

\* what read_register gives for register reg under bus outcome o
mic_read(reg, o) == IF o \in {"nack_w", "nack_r"} THEN PyFalse ELSE PyNum(regs[reg])

\* a field setter that reads the register before it rejects its argument
set_field_value_late(rv, f, a, o) ==
    LET reg == FieldReg(f)
        rd  == mic_read(reg, o)
    IN  IF ReadFailed(rv, rd)
        THEN [val |-> PyFalse, rd |-> rd, regs |-> regs,
              tx |-> read_register(rail, reg, IF o = "nack_d" THEN "ok" ELSE o)]
        ELSE [val |-> IF rv = "ETB" THEN PyRaise ELSE PyFalse, rd |-> rd, regs |-> regs,
              tx |-> read_register(rail, reg, "ok")]

\* MIC24045.set_current_limit .. set_soft_start_slope with argument a:
\* the value returned, what read_register gave, the transactions, the registers after
set_field_value(rv, f, a, o) ==
    LET reg == FieldReg(f)
        rd  == mic_read(reg, o)
        msg == BitOr(BitAnd(rd.num, FieldKeep(f)), FieldCode(rv, f, a) * 2^FieldOffset(f))
    IN  IF ~ValidArg(rv, f, a)
        THEN [val |-> IF rv = "ETB" THEN PyRaise ELSE PyFalse, rd |-> PyNone,
              regs |-> regs, tx |-> <<>>]
        ELSE IF ReadFailed(rv, rd)
        THEN [val |-> PyFalse, rd |-> rd, regs |-> regs,
              tx |-> read_register(rail, reg, IF o = "nack_d" THEN "ok" ELSE o)]
        ELSE [val |-> IF o = "nack_d" THEN PyFalse ELSE PyTrue, rd |-> rd,
              regs |-> IF o = "nack_d" THEN regs ELSE [regs EXCEPT ![reg] = msg],
              tx |-> read_register(rail, reg, "ok") \o write_register(rail, reg, msg)]

\* MIC24045.inc_output_voltage (d = 1) / dec_output_voltage (d = -1)
step_output_voltage(rv, d, o) ==
    LET rd == mic_read("VOUT", o)
    IN  IF ReadFailed(rv, rd)
        THEN [val |-> PyFalse, rd |-> rd, regs |-> regs,
              tx |-> read_register(rail, "VOUT", IF o = "nack_d" THEN "ok" ELSE o)]
        ELSE IF (d = 1 /\ rd.num < 255) \/ (d = -1 /\ rd.num > 0)
        THEN [val |-> IF o = "nack_d" THEN PyFalse ELSE PyTrue, rd |-> rd,
              regs |-> IF o = "nack_d" THEN regs ELSE [regs EXCEPT !.VOUT = rd.num + d],
              tx |-> read_register(rail, "VOUT", "ok")
                     \o write_register(rail, "VOUT", rd.num + d)]
        ELSE [val |-> PyFalse, rd |-> rd, regs |-> regs,
              tx |-> read_register(rail, "VOUT", "ok")]

\* a transaction of the call met a bus failure
BusFailed(o, tx) ==
    \/ o \in {"nack_w", "nack_r"} /\ tx # <<>>
    \/ o = "nack_d" /\ Len(tx) = 3

InitMic ==
    /\ muxSel = 0
    /\ en = [r \in Rails |-> FALSE]
    /\ en0 = en
    /\ pc = "idle"
    /\ top = [name |-> "__init__", arg |-> 0]
    /\ rail = 0
    /\ inner = PyNone
    /\ ret = PyNone
    /\ passed = 0
    /\ result = PyNone
    /\ log = <<>>
    /\ acted = <<>>
    /\ polls = 0
    /\ slept = 0
    /\ fault = {}
    /\ clean = TRUE
    /\ xpc = "off"
    /\ xr \in 0 .. 255
    /\ xv = NoFloat
    /\ xreg = PyFalse
    /\ rev \in Revisions
    /\ regs = [SET1 |-> xr, SET2 |-> xr, VOUT |-> xr]
    /\ dpc = "mic"
    /\ ops = 0
    /\ ina = [r \in Rails |-> Profile(-1)]

\* mic.set_current_limit(a) .. mic.set_soft_start_slope(a), as the first call
mic_set_field ==
    /\ dpc = "mic"
    /\ ops = 0
    /\ \E f \in Fields, o \in RmwOutcomes :
          \E a \in FieldArgs(rev, f) :
             LET c == set_field_value(rev, f, a, o)
             IN  /\ top' = [name |-> f, arg |-> a]
                 /\ result' = c.val
                 /\ inner' = c.rd
                 /\ log' = c.tx
                 /\ regs' = c.regs
                 /\ fault' = IF BusFailed(o, c.tx) THEN {"inner"} ELSE {}
    /\ dpc' = "done"
    /\ ops' = 1
    /\ UNCHANGED <<muxSel, en, pc, rail, ret, passed, en0, acted, polls, slept, clean,
                   xferVars, rev, ina>>

\* mic.inc_output_voltage() / mic.dec_output_voltage()
mic_step_output_voltage ==
    /\ dpc = "mic"
    /\ ops < MaxOps
    /\ \E d \in {-1, 1}, o \in RmwOutcomes :
          LET c == step_output_voltage(rev, d, o)
          IN  /\ top' = [name |-> IF d = 1 THEN "inc" ELSE "dec", arg |-> 0]
              /\ result' = c.val
              /\ inner' = c.rd
              /\ log' = c.tx
              /\ regs' = c.regs
              /\ fault' = IF BusFailed(o, c.tx) THEN {"inner"} ELSE {}
    /\ ops' = ops + 1
    /\ UNCHANGED <<muxSel, en, pc, rail, ret, passed, en0, acted, polls, slept, clean,
                   xferVars, rev, dpc, ina>>

NextMic == mic_set_field \/ mic_step_output_voltage

SpecMic == InitMic /\ [][NextMic]_vars

-----------------------------------------------------------------------------
(***************************************************************************)
(* Construction: VSM.__init__ builds the four controllers one after the    *)
(* other, MIC24045.__init__ statement by statement.  The enable lines are  *)
(* at any level beforehand; log holds the side effects of the controller   *)
(* under construction, fault the steps of it that met a bus failure, ops   *)
(* the number of fields programmed.                                        *)
(***************************************************************************)
\* MIC24045.__init__: the setters called and their arguments, in order
\* (the slope 0.16 V/ms in units of 0.01 V/ms)
InitProgram == <<[f |-> "ILIM", a |-> 3], [f |-> "FREQ", a |-> 500], [f |-> "SUD", a |-> 0],
                 [f |-> "MRG", a |-> 0], [f |-> "SS", a |-> 16]>>

\* a disable() that drives the enable line high
disable_high(r) == [en EXCEPT ![r] = TRUE]

\* MIC24045.disable() of rail r: GPIO.output(gpio, GPIO.LOW)
disable(r) == [en EXCEPT ![r] = FALSE]

InitBuild ==
    /\ muxSel = 0
    /\ en \in [Rails -> BOOLEAN]
    /\ en0 = en
    /\ pc = "idle"
    /\ top = [name |-> "__init__", arg |-> 0]
    /\ rail = 0
    /\ inner = PyNone
    /\ ret = PyNone
    /\ passed = 0
    /\ result = PyNone
    /\ log = <<>>
    /\ acted = <<>>
    /\ polls = 0
    /\ slept = 0
    /\ fault = {}
    /\ clean = TRUE
    /\ xpc = "off"
    /\ xr = 165
    /\ xv = NoFloat
    /\ xreg = PyFalse
    /\ rev = "ETB"
    /\ regs = [SET1 |-> xr, SET2 |-> xr, VOUT |-> xr]
    /\ dpc = "new"
    /\ ops = 0
    /\ ina = [r \in Rails |-> Profile(-1)]

\* self._mic[i] = MIC24045(gpio=en<i+1>), first statement: GPIO.setup(gpio, GPIO.OUT)
MIC24045_setup ==
    /\ \/ dpc = "new"
       \/ dpc = "made" /\ rail < NumRails - 1
    /\ LET r == IF dpc = "new" THEN 0 ELSE rail + 1
       IN  /\ rail' = r
           /\ log' = <<Tx("gpio", r, "setup", "EN", 0)>>
    /\ regs' = [SET1 |-> xr, SET2 |-> xr, VOUT |-> xr]
    /\ fault' = {}
    /\ ops' = 0
    /\ dpc' = "disable"
    /\ UNCHANGED <<muxSel, en, pc, top, inner, ret, passed, result, en0, acted, polls,
                   slept, clean, xferVars, rev, ina>>

\* self.disable()
MIC24045_disable ==
    /\ dpc = "disable"
    /\ en' = disable(rail)
    /\ log' = log \o <<Tx("gpio", rail, "output", "EN", 0)>>
    /\ dpc' = "CMD"
    /\ UNCHANGED <<muxSel, pc, top, rail, inner, ret, passed, result, en0, acted, polls,
                   slept, fault, clean, xferVars, rev, regs, ops, ina>>

\* self.clear_fault_flag(): CIFF written to the command register
MIC24045_clear_fault_flag ==
    /\ dpc = "CMD"
    /\ \E ok \in BOOLEAN :
          fault' = IF ok THEN fault ELSE fault \cup {"CMD"}
    /\ log' = log \o write_register(rail, "CMD", 1)
    /\ dpc' = "program"
    /\ UNCHANGED <<muxSel, en, pc, top, rail, inner, ret, passed, result, en0, acted,
                   polls, slept, clean, xferVars, rev, regs, ops, ina>>

\* self.set_current_limit(3) .. self.set_soft_start_slope(0.16): the next
\* setter; what it returns is not looked at
MIC24045_program ==
    /\ dpc = "program"
    /\ \E o \in RmwOutcomes :
          LET step == InitProgram[ops + 1]
              c    == set_field_value(rev, step.f, step.a, o)
          IN  /\ log' = log \o c.tx
              /\ regs' = c.regs
              /\ fault' = IF BusFailed(o, c.tx) THEN fault \cup {step.f} ELSE fault
    /\ ops' = ops + 1
    /\ dpc' = IF ops + 1 = Len(InitProgram) THEN "made" ELSE "program"
    /\ UNCHANGED <<muxSel, en, pc, top, rail, inner, ret, passed, result, en0, acted,
                   polls, slept, clean, xferVars, rev, ina>>

\* the rest of VSM.__init__: the wattmeters are built and calibrated, each
\* between select(i+1) and select(0); no enable line is touched, and the
\* multiplexer is left where its last successful write put it
VSM_calibrate ==
    /\ dpc = "made"
    /\ rail = NumRails - 1
    /\ muxSel' \in {0} \cup {2^r : r \in Rails}
    /\ dpc' = "built"
    /\ UNCHANGED <<en, pc, top, rail, inner, ret, passed, result, log, en0, acted, polls,
                   slept, fault, clean, xferVars, rev, regs, ops, ina>>

NextBuild ==
    \/ MIC24045_setup
    \/ MIC24045_disable
    \/ MIC24045_clear_fault_flag
    \/ MIC24045_program
    \/ VSM_calibrate

SpecBuild == InitBuild /\ [][NextBuild]_vars

-----------------------------------------------------------------------------
(***************************************************************************)
(* SpecIna: the INA219 driver on its own, on a working bus, in each        *)
(* revision (ETB/core/INA219.py, etb/core/INA219.py,                       *)
(* testbench/core/ina219.py): get_current_mA, the five setters of the      *)
(* configuration register and the calibration, against a device whose      *)
(* CURRENT and CONFIG registers hold the word xr.                          *)
(***************************************************************************)
\* a Python float with its sign: the magnitude is a binary64 of the library
PySigned(neg, f) == [tag |-> "Float", f |-> f, neg |-> neg]

\* INA219.get_current_mA with the CURRENT register holding w:
\* float(self.read_ina_register(INA219_REG_CURRENT)) * self._current_lsb
get_current_mA(w, profile) ==
    LET value == read_ina_register(w)
        mag   == IF value < 0 THEN -value ELSE value
    IN  PySigned(value < 0, FMul(FInt(mag), FLit(profile.current_lsb, 10000)))

InaFields == {"BRNG", "PG", "BADC", "SADC", "MODE"}

\* arguments tried: [a, s] with s the `sample` of the two ADC setters
InaArgs(rv, f) ==
    LET one(S) == {<<a, 0>> : a \in S}
    IN  CASE f = "BRNG" -> one(IF rv = "ETB" THEN {16, 32, 8} ELSE {0, 1, 2})
          [] f = "PG"   -> one(IF rv = "ETB" THEN {40, 80, 160, 320, 0} ELSE {0, 1, 2, 3, 4})
          [] f = "MODE" -> one(-1 .. 8)
          [] OTHER      -> IF rv = "ETB"
                           THEN {9, 10, 11, 12, 13} \X {1, 2, 4, 8, 16, 32, 64, 128, 3}
                           ELSE (0 .. 4) \X (0 .. 8)

\* an argument the setter accepts
InaValid(rv, f, a, s) ==
    CASE f = "BRNG" -> IF rv = "ETB" THEN a \in {16, 32} ELSE a \in 0 .. 1
      [] f = "PG"   -> IF rv = "ETB" THEN a \in {40, 80, 160, 320} ELSE a \in 0 .. 3
      [] f = "MODE" -> a \in 0 .. 7
      [] OTHER      -> IF rv = "ETB"
                       THEN a \in 9 .. 12 /\ s \in {1, 2, 4, 8, 16, 32, 64, 128}
                       ELSE a \in 0 .. 3 /\ s \in 0 .. 7

\* INA219.set_bus_RNG, set_PGA, set_bus_ADC, set_shunt_ADC, set_mode with the
\* CONFIG register holding word: the value returned and the register afterwards.
\* The ETB revision raises ValueError on an invalid argument and NameError
\* (INA219_ADC_BIT) on a resolution below 12 bits; the older revisions return.
ina_set_config(rv, f, a, s, word) ==
    LET log2(n) == CHOOSE k \in 0 .. 7 : 2^k = n
        code == IF rv # "ETB" THEN a
                ELSE CASE f = "BRNG" -> (a - 16) \div 16
                       [] f = "PG"   -> log2(a \div 40)
                       [] f = "MODE" -> a
                       [] OTHER      -> a - 9
        smpl == IF rv = "ETB" THEN log2(s) ELSE s
        value == IF f \in {"BADC", "SADC"}
                 THEN (IF code < 3 THEN code ELSE BitOr(128, smpl))
                 ELSE code
        keep == CASE f = "BRNG" -> 57343
                  [] f = "PG"   -> 59391
                  [] f = "BADC" -> 63615
                  [] f = "SADC" -> IF rv = "ETB" THEN 63615 ELSE 65415
                  [] f = "MODE" -> 65528
        offset == CASE f = "BRNG" -> 13 [] f = "PG" -> 11 [] f = "BADC" -> 7
                    [] f = "SADC" -> 3 [] f = "MODE" -> 0
        reg  == read_ina_register(word)
        conf == BitOr(BitAnd(reg % 65536, keep), value * 2^offset)
    IN  IF ~InaValid(rv, f, a, s)
        THEN [val |-> IF rv = "ETB" THEN PyRaise ELSE PyNone, conf |-> word]
        ELSE IF rv = "ETB" /\ f \in {"BADC", "SADC"} /\ a < 12
        THEN [val |-> PyRaise, conf |-> word]
        ELSE [val |-> PyNone, conf |-> conf % 65536]

\* _calibrate_16V_400mA (imax = 0) / _calibrate_16V_5A (imax = 1): the CONFIG
\* register after set_bus_RNG, set_PGA, set_bus_ADC, set_shunt_ADC and set_mode
calibrate_config(rv, imax, word) ==
    LET etb == rv = "ETB"
        c1 == ina_set_config(rv, "BRNG", IF etb THEN 16 ELSE 0, 0, word).conf
        c2 == ina_set_config(rv, "PG", IF etb THEN (IF imax = 0 THEN 40 ELSE 320)
                                       ELSE (IF imax = 0 THEN 0 ELSE 2), 0, c1).conf
        c3 == ina_set_config(rv, "BADC", IF etb THEN 12 ELSE 3, IF etb THEN 1 ELSE 0, c2).conf
        c4 == ina_set_config(rv, "SADC", IF etb THEN 12 ELSE 3, IF etb THEN 1 ELSE 0, c3).conf
    IN  <<c3, ina_set_config(rv, "MODE", 7, 0, c4).conf>>

\* CONFIG words the setters are tried on: none, all and each single bit set or clear
Priors == {0, 65535} \cup {2^k : k \in 0 .. 15} \cup {65535 - 2^k : k \in 0 .. 15}

InitIna ==
    /\ muxSel = 0
    /\ en = [r \in Rails |-> FALSE]
    /\ en0 = en
    /\ pc = "idle"
    /\ top = [name |-> "__init__", arg |-> <<0, 0>>]
    /\ rail = 0
    /\ inner = PyNone
    /\ ret = PyNone
    /\ passed = 0
    /\ result = PyNone
    /\ log = <<>>
    /\ acted = <<>>
    /\ polls = 0
    /\ slept = 0
    /\ fault = {}
    /\ clean = TRUE
    /\ xpc = "off"
    /\ rev \in Revisions
    /\ xr \in IF rev = "ETB" THEN 0 .. 65535 ELSE Priors
    /\ xv = NoFloat
    /\ xreg = PyFalse
    /\ regs = [CONFIG |-> xr, CURRENT |-> xr, CALIBRATION |-> 0]
    /\ dpc = "ina"
    /\ ops = 0
    /\ \E imax \in IF xr \in Priors THEN {0, 1} ELSE {0} :
          ina = [r \in Rails |-> Profile(imax)]

\* ina.get_current_mA()
ina_get_current_mA ==
    /\ dpc = "ina"
    /\ top' = [name |-> "get_current_mA", arg |-> <<0, 0>>]
    /\ inner' = PyNum(read_ina_register(regs.CURRENT))
    /\ result' = get_current_mA(regs.CURRENT, ina[rail])
    /\ dpc' = "done"
    /\ UNCHANGED <<muxSel, en, pc, rail, ret, passed, log, en0, acted, polls, slept,
                   fault, clean, xferVars, rev, regs, ops, ina>>

\* ina.set_bus_RNG(a) .. ina.set_mode(a)
ina_set ==
    /\ dpc = "ina"
    /\ xr \in Priors
    /\ \E f \in InaFields :
          \E arg \in InaArgs(rev, f) :
             LET c == ina_set_config(rev, f, arg[1], arg[2], regs.CONFIG)
             IN  /\ top' = [name |-> f, arg |-> arg]
                 /\ result' = c.val
                 /\ regs' = [regs EXCEPT !.CONFIG = c.conf]
    /\ dpc' = "done"
    /\ UNCHANGED <<muxSel, en, pc, rail, inner, ret, passed, log, en0, acted, polls,
                   slept, fault, clean, xferVars, rev, ops, ina>>

\* ina.calibrate(imax) (ETB), calibrate_16V_400mA() / begin_16V_5A() (older
\* revisions); inner keeps the CONFIG word as set_bus_ADC left it
ina_calibrate_16V ==
    /\ dpc = "ina"
    /\ xr \in Priors
    /\ \E imax \in {0, 1} :
          LET c == calibrate_config(rev, imax, regs.CONFIG)
          IN  /\ top' = [name |-> "calibrate", arg |-> <<imax, 0>>]
              /\ ina' = [ina EXCEPT ![rail] = Profile(imax)]
              /\ regs' = [regs EXCEPT !.CONFIG = c[2],
                                      !.CALIBRATION = Profile(imax).cal_value]
              /\ inner' = PyNum(c[1])
    /\ result' = PyNone
    /\ dpc' = "done"
    /\ UNCHANGED <<muxSel, en, pc, rail, ret, passed, log, en0, acted, polls, slept,
                   fault, clean, xferVars, rev, ops>>

NextIna == ina_get_current_mA \/ ina_set \/ ina_calibrate_16V

SpecIna == InitIna /\ [][NextIna]_vars

-----------------------------------------------------------------------------
(***************************************************************************)
(* SpecCal: the facade's construction followed by calibrations only,       *)
(* CHx_calibrate_A(imax) and ALL_calibrate_A(imax) with either profile or  *)
(* an imax that is none.                                                   *)
(***************************************************************************)
CallCalibrate ==
    /\ pc = "idle"
    /\ \E name \in {"calibrate_A", "ALL_calibrate_A"}, r \in Rails, imax \in 0 .. 2 :
          /\ top' = [name |-> name, arg |-> imax]
          /\ StartBracket(name, IF name = "calibrate_A" THEN r ELSE 0, <<>>)
    /\ polls' = 0
    /\ passed' = 0
    /\ slept' = 0
    /\ result' = PyNone
    /\ en0' = en
    /\ UNCHANGED <<muxSel, en, clean, xferVars, drvVars>>

NextCal ==
    \/ MIC24045_init
    \/ INA219_init
    \/ CallCalibrate
    \/ bracket_select
    \/ calibrate
    \/ bracket_deselect
    \/ init_loop
    \/ return_single
    \/ ALL_loop

SpecCal == Init /\ [][NextCal]_vars

-----------------------------------------------------------------------------
(***************************************************************************)
(* Properties.  At pc = "ret" a per-rail method has just returned `ret`    *)
(* and `log` holds the transactions it issued, each with the multiplexer   *)
(* byte (`sel`) latched when it went out; `fault` names the steps of the   *)
(* bracket that met a bus failure.                                         *)
(***************************************************************************)
IsMuxWrite(t, byte) == t.dev = "mux" /\ t.op = "write_byte" /\ t.val = byte
IsDeviceTx(t) == t.dev \in {"mic", "ina"}
PerRailCall == top.name \in SingleCalls \cup BankCalls
WaitCalls == {"wait_power_good", "ALL_wait_power_good"}

\* C1: a per-rail set-voltage, calibrate, read-voltage, read-current or
\* is-power-good operation in which no transaction fails issues exactly: one
\* multiplexer write of the bit of channel rail+1, then transactions of that
\* rail's controller / wattmeter (at least one), then one multiplexer write
\* of 0, and leaves selection 0; and while every transaction so far has
\* succeeded the selection is 0 whenever no facade operation is in progress.
C1_BracketOrder ==
    /\ (/\ pc = "ret"
        /\ Method(top.name) \in {"set_vout", "calibrate_A", "get_V", "get_mA", "is_power_good"}
        /\ fault = {})
       => /\ Len(log) >= 3
          /\ IsMuxWrite(log[1], 2^rail)
          /\ IsMuxWrite(log[Len(log)], 0)
          /\ \A k \in 2 .. Len(log) - 1 :
                IsDeviceTx(log[k]) /\ log[k].rail = rail /\ log[k].sel = 2^rail
          /\ muxSel = 0
    /\ (pc = "idle" /\ clean) => muxSel = 0

\* C1 happens: a read of rail 2's bus voltage with no failure has returned,
\* after a construction and earlier calls that were clean too
C1_Witness ==
    /\ pc = "ret"
    /\ top.name = "get_V"
    /\ rail = 2
    /\ fault = {}
    /\ clean
    /\ Len(log) = 3

\* C2: when the device action of a per-rail operation fails after the entry
\* select succeeded, the last transaction the operation issues before it
\* returns is the multiplexer write of 0.
C2_DeselectAfterInnerFailure ==
    (pc = "ret" /\ PerRailCall /\ "inner" \in fault /\ "entry" \notin fault)
       => (Len(log) > 0 /\ IsMuxWrite(log[Len(log)], 0))

\* C3: when the entry select of a per-rail operation fails, the operation
\* returns False and has issued no transaction to the rail's controller or
\* wattmeter; the wattmeter calibration of the constructor is not issued
\* after a failed select either.
C3_NoActionAfterFailedSelect ==
    (pc = "ret" /\ "entry" \in fault)
       => /\ \A k \in DOMAIN log : ~IsDeviceTx(log[k])
          /\ PerRailCall => IsFalse(ret)

\* C4: when the read of a voltage, a current or the power-good flag
\* succeeded and only the exit deselect failed, the operation returns the
\* value that was read.
C4_ResultSurvivesDeselectFailure ==
    (/\ pc = "ret"
     /\ Method(top.name) \in {"get_V", "get_mA", "is_power_good"}
     /\ fault = {"exit"})
       => ret = inner

\* C5: every transaction addressed to rail i's controller or wattmeter goes
\* out while the multiplexer's latched byte selects channel i+1 alone.
C5_DeviceTxOnOwnChannel ==
    \A k \in DOMAIN log : IsDeviceTx(log[k]) => log[k].sel = 2^(log[k].rail)

Failed(v) == IsFalse(v) \/ v = PyRaise

\* the rails a whole-bank loop has entered are 0, 1, .. up to the current one
C6_AscendingPrefix ==
    top.name \in LoopCalls
       => /\ acted = [k \in 1 .. rail + 1 |-> k - 1]
          /\ (pc = "idle" /\ Failed(result))
                => \A r \in Rails :
                      /\ r > rail => en[r] = en0[r]
                      /\ (r <= rail /\ Method(top.name) = "set_enable")
                            => en[r] = (top.name = "ALL_enable")
          /\ (pc = "idle" /\ ~Failed(result)) => (result = PyTrue /\ rail = NumRails - 1)

\* the step a whole-bank loop takes when a per-rail operation has returned
C6_LoopStep ==
    (pc = "ret" /\ top.name \in LoopCalls)
       => IF Failed(ret)
          THEN /\ pc' = "idle"
               /\ result' = ret
               /\ acted' = acted
               /\ log' = log
               /\ en' = en
               /\ muxSel' = muxSel
          ELSE IF rail < NumRails - 1
          THEN rail' = rail + 1 /\ acted' = Append(acted, rail + 1) /\ pc' # "idle"
          ELSE pc' = "idle" /\ result' = PyTrue

\* C6: a whole-bank loop (ALL_enable, ALL_disable, ALL_calibrate_A,
\* ALL_set_decimal_V, ALL_is_power_good) enters the rails in ascending order
\* from rail 0 and ends at the first rail whose per-rail operation returns
\* False (or leaves with an exception): no later rail sees a GPIO or bus
\* action, the rails before keep what was applied, nothing is issued to undo
\* it, and the loop returns that failure.
C6_FailFast == []C6_AscendingPrefix /\ [][C6_LoopStep]_vars

\* C6 happens: ALL_enable has failed on the third rail; rails 0..2 had their
\* enable line raised and rail 3 is as it was
C6_Witness ==
    /\ pc = "idle"
    /\ top.name = "ALL_enable"
    /\ IsFalse(result)
    /\ rail = 2
    /\ acted = <<0, 1, 2>>
    /\ en[0] /\ en[1] /\ en[2] /\ ~en[3]

\* C7: CHx_wait_power_good returns True only when its last poll read the
\* status register with PGS set.
C7_SuccessOnlyIfPGS ==
    (pc = "idle" /\ top.name = "wait_power_good" /\ result = PyTrue)
       => inner = PyNum(1)

C9_NoSleepPastTimeout ==
    (pc = "idle" /\ top.name \in WaitCalls /\ IsFalse(result))
       => slept <= top.arg

\* C10: a register value taken to a voltage and back is the same register
\* value, for every register value 0..255.
C10_RoundTrip ==
    xpc = "done" => xreg = PyNum(xr)

\* C11: get_voltage_from_register is strictly increasing over 0..255 (each
\* register value maps below its successor, the segment boundaries 128/129,
\* 195/196 and 244/245 included) and every value lies in [0.64 V, 5.25 V].
C11_Increasing ==
    xpc = "volt"
       => /\ xv.tag = "Float"
          /\ FLe(F0_64, xv.f)
          /\ FLe(xv.f, F5_25)
          /\ xr < 255 => FLt(xv.f, get_voltage_from_register(xr + 1).f)

\* C11 happens: the last register of the 5 mV segment has been converted
C11_Witness ==
    xpc = "volt" /\ xr = 128 /\ xv = PyFloat(F1_28)

\* the four-segment table of the register map, in binary64
C12_Table(r) ==
    IF r < 129 THEN FAdd(F0_64, FMul(F0_005, FInt(r)))
    ELSE IF r < 196 THEN FAdd(F1_29, FMul(F0_01, FInt(r - 129)))
    ELSE IF r < 245 THEN FAdd(F1_98, FMul(F0_03, FInt(r - 196)))
    ELSE FAdd(F4_75, FMul(F0_05, FInt(r - 245)))

\* C12: dec2volt / get_voltage_from_register give the value of the
\* four-segment table for every register value 0..255; registers 0, 128, 129,
\* 196, 245 and 255 give 0.64, 1.28, 1.29, 1.98, 4.75 and 5.25 V.
C12_MatchesTable ==
    xpc = "volt"
       => /\ xv = PyFloat(C12_Table(xr))
          /\ xv = get_voltage_from_register(xr)
          /\ xr = 0   => xv.f = F0_64
          /\ xr = 128 => xv.f = F1_28
          /\ xr = 129 => xv.f = F1_29
          /\ xr = 196 => xv.f = F1_98
          /\ xr = 245 => xv.f = F4_75
          /\ xr = 255 => xv.f = F5_25

\* C12 happens: dec2volt(255) has returned 5.25 V
C12_Witness ==
    xpc = "volt" /\ xr = 255 /\ xv = PyFloat(F5_25)

\* C13: get_register_from_voltage gives 128 in [1.28, 1.29), 195 in
\* [1.95, 1.98) and 244 in [3.42, 4.75); for any other voltage of
\* [0.64, 5.25] it gives a register of the segment holding the voltage:
\* 0..127, 129..194, 196..243 or 245..255.
C13_ZonesAndSegments ==
    xpc = "vset"
       => LET v == xv.f
              InNum(lo, hi) == xreg.tag = "Num" /\ lo <= xreg.num /\ xreg.num <= hi
          IN  /\ (FLe(F0_64, v) /\ FLt(v, F1_28)) => InNum(0, 127)
              /\ (FLe(F1_28, v) /\ FLt(v, F1_29)) => xreg = PyNum(128)
              /\ (FLe(F1_29, v) /\ FLt(v, F1_95)) => InNum(129, 194)
              /\ (FLe(F1_95, v) /\ FLt(v, F1_98)) => xreg = PyNum(195)
              /\ (FLe(F1_98, v) /\ FLt(v, F3_42)) => InNum(196, 243)
              /\ (FLe(F3_42, v) /\ FLt(v, F4_75)) => xreg = PyNum(244)
              /\ (FLe(F4_75, v) /\ FLe(v, F5_25)) => InNum(245, 255)

\* C13 happens: the float just below 1.29 V has been converted to 128
C13_Witness ==
    xpc = "vset" /\ xv.f = FNudge(F1_29, -1) /\ xreg = PyNum(128)

\* C14: get_register_from_voltage returns False exactly for the voltages
\* below 0.64 V and above 5.25 V; 0.64 V gives register 0 and 5.25 V a
\* register; CHx_set_V with a voltage out of range returns False with no
\* multiplexer or rail transaction, and with a voltage in range (0.64 V
\* included) it goes on to _set_vout with the register.
C14_DomainRejection ==
    xpc = "vset"
       => LET v == xv.f
          IN  /\ IsFalse(xreg) <=> (FLt(v, F0_64) \/ FLt(F5_25, v))
              /\ v = F0_64 => xreg = PyNum(0)
              /\ v = F5_25 => xreg.tag = "Num"
              /\ IsFalse(xreg)
                    => (pc = "idle" /\ IsFalse(result) /\ log = <<>> /\ muxSel = 0)
              /\ ~IsFalse(xreg)
                    => (top.arg = xreg.num /\ (pc = "sel" \/ log # <<>>))

\* C14 happens: CHx_set_V(5.3) has returned False
C14_Witness ==
    /\ xpc = "vset"
    /\ xv.f = FLit(5300, 1000)
    /\ top.name = "set_V"
    /\ pc = "idle"
    /\ IsFalse(result)
    /\ log = <<>>

OneHot(b) == b = 0 \/ \E k \in 0 .. 7 : b = 2^k

\* C15: select(channel) issues at most one write; for channel 0 the byte is
\* 0 and for channel 1..8 the byte with bit channel-1 alone (4 for channel
\* 3); for any other channel it returns False and writes nothing.  A byte
\* written by select has at most one bit set, and so has the control
\* register after a select that succeeded.
C15_SingleHot ==
    top.name = "select"
       => /\ Len(log) <= 1
          /\ top.arg = 0 => (Len(log) = 1 /\ IsMuxWrite(log[1], 0))
          /\ top.arg \in 1 .. 8 => (Len(log) = 1 /\ IsMuxWrite(log[1], 2^(top.arg - 1)))
          /\ top.arg = 3 => log[1].val = 4
          /\ top.arg \notin 0 .. 8 => (log = <<>> /\ IsFalse(result))
          /\ \A k \in DOMAIN log : OneHot(log[k].val)
          /\ result = PyTrue => (OneHot(muxSel) /\ muxSel = log[1].val)

\* C15 happens: select(3) has succeeded on a register that held 0x81
C15_Witness ==
    /\ top.name = "select"
    /\ top.arg = 3
    /\ result = PyTrue
    /\ muxSel = 4
    /\ log[1].sel = 129

\* C16: get_channels returns the ascending list of the channels k in 1..8
\* whose bit k-1 is set in the byte read back, and False when the read fails.
C16_DecodesReadBack ==
    top.name = "get_channels"
       => IF "inner" \in fault
          THEN IsFalse(result)
          ELSE /\ result.tag = "List"
               /\ {result.items[i] : i \in DOMAIN result.items}
                     = {k \in 1 .. 8 : Bit(muxSel, k - 1) = 1}
               /\ \A i, j \in DOMAIN result.items : i < j => result.items[i] < result.items[j]

\* C17: with a working bus, inc_output_voltage at VOUT = 0xFF and
\* dec_output_voltage at VOUT = 0x00 return False and write nothing; at any
\* other VOUT (0x00 for an increment included) they write VOUT+1 / VOUT-1 and
\* return True; the VOUT register stays within 0..255.
C17_IncDecClamp ==
    (top.name \in {"inc", "dec"} /\ fault = {})
       => LET d == IF top.name = "inc" THEN 1 ELSE -1
              prior == inner.num
          IN  /\ inner.tag = "Num"
              /\ regs.VOUT \in 0 .. 255
              /\ IF (d = 1 /\ prior = 255) \/ (d = -1 /\ prior = 0)
                 THEN /\ IsFalse(result)
                      /\ \A k \in DOMAIN log : log[k].op # "write_byte_data"
                      /\ regs.VOUT = prior
                 ELSE /\ result = PyTrue
                      /\ log[Len(log)].op = "write_byte_data"
                      /\ log[Len(log)].reg = "VOUT"
                      /\ log[Len(log)].val = prior + d
                      /\ regs.VOUT = prior + d

\* bit range of each field in its setting register
FieldBits(f) == CASE f = "ILIM" -> 6 .. 7 [] f = "FREQ" -> 3 .. 5 [] f = "SUD" -> 4 .. 6
                  [] f = "MRG" -> 2 .. 3 [] f = "SS" -> 0 .. 1

\* C18: a field setter given a valid value on a working bus reads the owning
\* register, writes it back with the field's bits replaced by the code and
\* every other bit as it was, and returns True, whatever byte (0x00..0xFF)
\* the register held, in each revision.
C18_FieldFrame ==
    (top.name \in Fields /\ ValidArg(rev, top.name, top.arg) /\ fault = {})
       => LET f    == top.name
              reg  == FieldReg(f)
              code == FieldCode(rev, f, top.arg)
              lo   == CHOOSE b \in FieldBits(f) : \A c \in FieldBits(f) : b <= c
          IN  /\ result = PyTrue
              /\ Len(log) = 3
              /\ log[3].op = "write_byte_data"
              /\ log[3].reg = reg
              /\ log[3].val = regs[reg]
              /\ \A k \in 0 .. 7 :
                    Bit(regs[reg], k) = IF k \in FieldBits(f) THEN Bit(code, k - lo)
                                        ELSE Bit(xr, k)
              /\ \A other \in {"SET1", "SET2", "VOUT"} \ {reg} : regs[other] = xr

\* C19: a field setter given a value outside the field's enumeration fails
\* (ValueError in the ETB revision, False in the etb / testbench revisions)
\* with no bus transaction, and the registers are as they were.
C19_InvalidArgument ==
    (top.name \in Fields /\ ~ValidArg(rev, top.name, top.arg))
       => /\ result = IF rev = "ETB" THEN PyRaise ELSE PyFalse
          /\ log = <<>>
          /\ regs = [SET1 |-> xr, SET2 |-> xr, VOUT |-> xr]

\* C19 happens: set_current_limit(6) of the ETB revision has raised
C19_Witness ==
    /\ rev = "ETB"
    /\ top = [name |-> "ILIM", arg |-> 6]
    /\ result = PyRaise
    /\ xr = 165

\* the transactions of log that open a register read
ReadsIn(l) == SelectSeq(l, LAMBDA t : t.op = "write_byte")

\* C20: a controller's construction produces its side effects in the order
\* GPIO setup, enable line low, CIFF written to the command register, then
\* current limit, frequency, start-up delay, margin and soft-start slope;
\* the rail's enable line is low from before the first register access to
\* the end of the construction whatever the bus does, the lines of the
\* controllers built earlier stay low, and once the facade is built all four
\* lines are low.
C20_ConstructionOrder ==
    dpc \in {"disable", "CMD", "program", "made", "built"}
       => /\ log[1].dev = "gpio" /\ log[1].op = "setup" /\ log[1].rail = rail
          /\ Len(log) >= 2
                => log[2].dev = "gpio" /\ log[2].op = "output" /\ log[2].val = 0
          /\ Len(log) >= 3
                => /\ log[3].dev = "mic" /\ log[3].op = "write_byte_data"
                   /\ log[3].reg = "CMD" /\ log[3].val = 1
          /\ \A k \in 4 .. Len(log) :
                LET j    == Len(ReadsIn(SubSeq(log, 1, k)))
                    step == InitProgram[j]
                IN  /\ log[k].dev = "mic"
                    /\ j \in 1 .. ops
                    /\ log[k].reg = FieldReg(step.f)
                    /\ log[k].op = "write_byte_data"
                          => \A b \in FieldBits(step.f) :
                                Bit(log[k].val, b)
                                   = Bit(FieldTable(step.f)[step.a], b - FieldOffset(step.f))
          /\ (dpc \in {"made", "built"} /\ fault = {})
                => Len(ReadsIn(log)) = Len(InitProgram) /\ Len(log) = 18
          /\ (\E k \in DOMAIN log : log[k].dev = "mic") => ~en[rail]
          /\ dpc \in {"made", "built"} => ~en[rail]
          /\ \A r \in Rails : r < rail => ~en[r]
          /\ dpc = "built" => \A r \in Rails : ~en[r]

\* C20 happens: the facade is built, every line was high beforehand, and the
\* last controller's soft-start write had failed
C20_Witness ==
    /\ dpc = "built"
    /\ en0 = [r \in Rails |-> TRUE]
    /\ fault = {"SS"}
    /\ Len(log) = 18
    /\ en = [r \in Rails |-> FALSE]

\* C21: read_ina_register gives the word w itself below 0x8000 and
\* w - 0x10000 from 0x8000 on (-32768 .. 32767), and get_current_mA gives
\* that signed value times the profile's current LSB in binary64: with the
\* 400 mA profile (0.05 mA per bit) the word 100 gives 5.0 mA and the word
\* 0x8000 gives -1638.4 mA.
C21_SignedCurrent ==
    top.name = "get_current_mA"
       => LET signed == IF xr < 32768 THEN xr ELSE xr - 65536
              mag    == IF signed < 0 THEN -signed ELSE signed
              lsb    == ina[rail].current_lsb
          IN  /\ inner = PyNum(signed)
              /\ signed \in -32768 .. 32767
              /\ result = PySigned(signed < 0, FMul(FInt(mag), FLit(lsb, 10000)))
              /\ (xr = 100 /\ lsb = 500) => result = PySigned(FALSE, FInt(5))
              /\ (xr = 32768 /\ lsb = 500) => result = PySigned(TRUE, FLit(16384, 10))

\* C21 happens: the word 0x8000 has been read as -1638.4 mA under the 400 mA profile
C21_Witness ==
    /\ top.name = "get_current_mA"
    /\ xr = 32768
    /\ ina[rail] = Profile(0)
    /\ inner = PyNum(-32768)
    /\ result = PySigned(TRUE, FLit(16384, 10))

\* C28: a configuration setter that accepts its argument changes only the
\* bits of its own field of the CONFIG register (BRNG 13, PG 11-12, BADC 7-10,
\* SADC 3-6, MODE 0-2) whatever the register held, and after a calibration
\* the BADC bits are still as set_bus_ADC wrote them.
C28_ConfigFrame ==
    /\ (top.name \in InaFields /\ InaValid(rev, top.name, top.arg[1], top.arg[2])
           /\ result = PyNone)
          => LET own == CASE top.name = "BRNG" -> {13} [] top.name = "PG" -> 11 .. 12
                          [] top.name = "BADC" -> 7 .. 10 [] top.name = "SADC" -> 3 .. 6
                          [] top.name = "MODE" -> 0 .. 2
             IN  \A k \in (0 .. 15) \ own : Bit(regs.CONFIG, k) = Bit(xr, k)
    /\ top.name = "calibrate"
          => \A k \in 7 .. 10 : Bit(regs.CONFIG, k) = Bit(inner.num, k)

\* C22: once the facade is built on a working bus every wattmeter object
\* holds the 400 mA profile (0.05 mA, 0.001 W, 8192); a calibration with a
\* profile leaves the rail's object with exactly that profile's three values
\* (5 A: 0.1524 mA, 0.003048 W, 13434); no object ever holds a mix.
C22_ProfileWhole ==
    LET Low  == [current_lsb |-> 500, power_lsb |-> 1000, cal_value |-> 8192]
        High == [current_lsb |-> 1524, power_lsb |-> 3048, cal_value |-> 13434]
        None == [current_lsb |-> 0, power_lsb |-> 0, cal_value |-> 0]
        Of(imax) == IF imax = 0 THEN Low ELSE High
    IN  /\ \A r \in Rails : ina[r] \in {None, Low, High}
        /\ (pc = "idle" /\ top.name = "__init__" /\ clean)
              => \A r \in Rails : ina[r] = Low
        /\ pc = "idle" => \A r \in Rails : ina[r] \in {Low, High}
        /\ (pc = "desel" /\ Method(top.name) = "calibrate_A" /\ top.arg \in {0, 1})
              => ina[rail] = Of(top.arg)
        /\ (pc = "idle" /\ top.name = "calibrate_A" /\ top.arg \in {0, 1} /\ fault = {})
              => result = PyTrue /\ ina[rail] = Of(top.arg)
        /\ (pc = "idle" /\ top.name = "ALL_calibrate_A" /\ top.arg \in {0, 1}
               /\ result = PyTrue)
              => \A r \in Rails : ina[r] = Of(top.arg)

\* C22 happens: built on a working bus, then rail 2 recalibrated for 5 A
C22_Witness ==
    /\ pc = "idle"
    /\ clean
    /\ top = [name |-> "calibrate_A", arg |-> 1]
    /\ rail = 2
    /\ result = PyTrue
    /\ ina[2] = [current_lsb |-> 1524, power_lsb |-> 3048, cal_value |-> 13434]
    /\ ina[0] = [current_lsb |-> 500, power_lsb |-> 1000, cal_value |-> 8192]

\* C23: a bus failure of the wattmeter inside CHx_get_V, CHx_get_mA or
\* CHx_calibrate_A comes back as the return value False, never as an
\* exception, and the call's last transaction is the deselecting write.
C23_InaFailureReturned ==
    (pc = "idle" /\ top.name \in {"get_V", "get_mA", "calibrate_A"} /\ "inner" \in fault)
       => /\ IsFalse(result)
          /\ IsMuxWrite(log[Len(log)], 0)

\* C24 as the specification words it: get_voltage_from_register(195) is 2.958 V
C24_Spec2958 ==
    (xpc = "volt" /\ xr = 195) => xv = PyFloat(FLit(2958, 1000))

\* C24: get_voltage_from_register(195) is 1.95 V as binary64 arithmetic
\* gives it, 1.29 + 66 * 0.01 = 1.9500000000000002, the float next above 1.95
C24_Register195 ==
    (xpc = "volt" /\ xr = 195) => xv = PyFloat(FNudge(F1_95, 1))

\* C24 happens: register 195 has been converted
C24_Witness ==
    /\ xpc = "volt"
    /\ xr = 195
    /\ FLt(F1_95, xv.f)
    /\ FLt(xv.f, F1_98)

\* C25: CHx_limit_A(amps) and ALL_limit_A(amps) with amps in {2, 3, 4, 5}
\* return True after a bracket that wrote the ILIM field's register SET1.
C25_LimitSetsILIM ==
    (pc = "idle" /\ top.name \in {"limit_A", "ALL_limit_A"})
       => /\ result = PyTrue
          /\ \E k \in DOMAIN log :
                log[k].dev = "mic" /\ log[k].op = "write_byte_data" /\ log[k].reg = "SET1"

\* C26: in ALL_is_power_good and ALL_wait_power_good a rail whose status read
\* did not give PGS = 1 ends the pass: the loop does not go on to the next
\* rail and the call does not return True on it.
C26_BankPowerGood ==
    [][(pc = "ret" /\ top.name \in {"ALL_is_power_good", "ALL_wait_power_good"}
           /\ inner # PyNum(1))
          => (rail' # rail + 1 /\ ~(pc' = "idle" /\ result' = PyTrue))]_vars

\* C27: ALL_get_V and ALL_get_mA whose per-rail reads all succeed return the
\* list of the four readings, a reading of 0 included.
C27_BankReadings ==
    (pc = "idle" /\ top.name \in GetCalls /\ fault = {})
       => result.tag = "List" /\ Len(result.items) = NumRails

\* C29: for a voltage of the millivolt grid in [0.64 V, 5.25 V],
\* get_register_from_voltage gives the largest register whose voltage is not
\* above it: the register's voltage is at most the request, and the next
\* register's voltage (get_voltage_from_register is increasing) is above it.
C29_RoundsDown ==
    (xpc = "vset" /\ FLe(F0_64, xv.f) /\ FLe(xv.f, F5_25)
        /\ xv.f \notin {FNudge(t, d) : t \in Thresholds, d \in {-1, 1}})
       => /\ xreg.tag = "Num"
          /\ FLe(get_voltage_from_register(xreg.num).f, xv.f)
          /\ xreg.num < 255 => ~FLe(get_voltage_from_register(xreg.num + 1).f, xv.f)

\* C30: once the facade is built, with the facade calls made one after the
\* other, every controller or wattmeter transaction of rail i goes out while
\* the multiplexer has channel i+1 alone selected.
C30_SequentialOwnChannel ==
    top.name # "__init__"
       => \A k \in DOMAIN log : IsDeviceTx(log[k]) => log[k].sel = 2^(log[k].rail)

=============================================================================
